---- MODULE Spec2Model ----
(***************************************************************************)
(* Flowlytics transaction pipeline: CSV rows are ingested as raw records,  *)
(* cleaned and de-duplicated into canonical records, aggregated into daily *)
(* and customer summaries, turned into feature records, and accounted for  *)
(* in a data-quality metric.                                               *)
(*                                                                         *)
(* Text is a sequence of characters, so that strip(), lower() and the      *)
(* parsers work on characters as the Python code does.  Python's None is   *)
(* the value None below.  A float (quantity, price, total_amount, every    *)
(* sum, average and percentage) is an IEEE 754 double, and every operation *)
(* on floats rounds as the interpreter and the store round.                *)
(***************************************************************************)
EXTENDS Integers, Sequences, FiniteSets, TLC

(***************************************************************************)
(* Characters.  A text is a sequence of characters.  A character is the    *)
(* one-character string that holds it; a character that a string of this   *)
(* module cannot hold (U+0000, the backtick U+0060 and every character     *)
(* above U+00FF) is the string "U+" followed by its code point in decimal. *)
(* The tables below are those of the Unicode database of the interpreter   *)
(* (Unicode 14).                                                           *)
(***************************************************************************)
None == <<"<None>">>

\* the character with code point n when a string cannot hold it
Char(n) == "U+" \o ToString(n)

\* the characters U+0000 .. U+00FF in code point order
Latin1 ==
  <<Char(0), "", "", "", "", "", "", "", "", "\t", "\n", "", "\f",
    "\r", "", "", "", "", "", "", "", "", "", "", "", "", "",
    "", "", "", "", "", " ", "!", "\"", "#", "$", "%", "&", "'", "(",
    ")", "*", "+", ",", "-", ".", "/", "0", "1", "2", "3", "4", "5", "6",
    "7", "8", "9", ":", ";", "<", "=", ">", "?", "@", "A", "B", "C", "D",
    "E", "F", "G", "H", "I", "J", "K", "L", "M", "N", "O", "P", "Q", "R",
    "S", "T", "U", "V", "W", "X", "Y", "Z", "[", "\\", "]", "^", "_",
    Char(96), "a", "b", "c", "d", "e", "f", "g", "h", "i", "j", "k", "l",
    "m", "n", "o", "p", "q", "r", "s", "t", "u", "v", "w", "x", "y", "z",
    "{", "|", "}", "~", "", "", "", "", "", "", "", "", "", "",
    "", "", "", "", "", "", "", "", "", "", "", "", "", "",
    "", "", "", "", "", "", "", "", "", " ", "¡", "¢", "£", "¤",
    "¥", "¦", "§", "¨", "©", "ª", "«", "¬", "­", "®", "¯", "°", "±", "²",
    "³", "´", "µ", "¶", "·", "¸", "¹", "º", "»", "¼", "½", "¾", "¿", "À",
    "Á", "Â", "Ã", "Ä", "Å", "Æ", "Ç", "È", "É", "Ê", "Ë", "Ì", "Í", "Î",
    "Ï", "Ð", "Ñ", "Ò", "Ó", "Ô", "Õ", "Ö", "×", "Ø", "Ù", "Ú", "Û", "Ü",
    "Ý", "Þ", "ß", "à", "á", "â", "ã", "ä", "å", "æ", "ç", "è", "é", "ê",
    "ë", "ì", "í", "î", "ï", "ð", "ñ", "ò", "ó", "ô", "õ", "ö", "÷", "ø",
    "ù", "ú", "û", "ü", "ý", "þ", "ÿ">>

\* chr(n)
chr(n) == IF n <= 255 THEN Latin1[n + 1] ELSE Char(n)

\* value of a string of decimal digits
RECURSIVE DecimalOf(_)
DecimalOf(s) ==
    IF s = "" THEN 0
    ELSE 10 * DecimalOf(SubSeq(s, 1, Len(s) - 1))
           + (CHOOSE k \in 0..9 : ToString(k) = SubSeq(s, Len(s), Len(s)))

Latin1Ord ==
    [c \in {Latin1[i] : i \in 1..256} |-> (CHOOSE i \in 1..256 : Latin1[i] = c) - 1]

\* ord(c)
ord(c) == IF Len(c) = 1 THEN Latin1Ord[c] ELSE DecimalOf(SubSeq(c, 3, Len(c)))

\* the characters str.strip(), str.isspace() and the \s of strptime take as
\* whitespace, by their code points
Whitespace ==
    {chr(n) : n \in {9, 10, 11, 12, 13, 28, 29, 30, 31, 32, 133, 160, 5760}
                        \cup 8192..8202 \cup {8232, 8233, 8239, 8287, 12288}}

\* code points of the digits zero of the decimal digits: the nine code points
\* after each are its digits one to nine
DigitZeros ==
  {48, 1632, 1776, 1984, 2406, 2534, 2662, 2790, 2918, 3046, 3174, 3302,
    3430, 3558, 3664, 3792, 3872, 4160, 4240, 6112, 6160, 6470, 6608, 6784,
    6800, 6992, 7088, 7232, 7248, 42528, 43216, 43264, 43472, 43504, 43600,
    44016, 65296, 66720, 68912, 69734, 69872, 69942, 70096, 70384, 70736,
    70864, 71248, 71360, 71472, 71904, 72016, 72784, 73040, 73120, 92768,
    92864, 93008, 120782, 120792, 120802, 120812, 120822, 123200, 123632,
    125264, 130032}

\* the characters \d, int() and float() take as decimal digits
Digits == {chr(z + k) : z \in DigitZeros, k \in 0..9}

\* the characters [0-9]
AsciiDigits == {"0", "1", "2", "3", "4", "5", "6", "7", "8", "9"}

\* bool(x) of an Optional[str]: None and "" are falsy
Truthy(t) == t # None /\ t # <<>>

DigitVal(c) ==
    CASE c = "0" -> 0 [] c = "1" -> 1 [] c = "2" -> 2 [] c = "3" -> 3 [] c = "4" -> 4
      [] c = "5" -> 5 [] c = "6" -> 6 [] c = "7" -> 7 [] c = "8" -> 8 [] c = "9" -> 9
      [] OTHER -> LET n == ord(c)
                  IN  n - (CHOOSE z \in DigitZeros : n - z \in 0..9)

\* str.lower() on single characters, as <<first, last, step, offset>>: the
\* code points first, first + step, ... last are lowered by adding offset
LowerRanges ==
  {<<65, 90, 1, 32>>, <<192, 214, 1, 32>>, <<216, 222, 1, 32>>,
    <<256, 302, 2, 1>>, <<306, 310, 2, 1>>, <<313, 327, 2, 1>>,
    <<330, 374, 2, 1>>, <<376, 376, 1, -121>>, <<377, 381, 2, 1>>,
    <<385, 385, 1, 210>>, <<386, 388, 2, 1>>, <<390, 390, 1, 206>>,
    <<391, 391, 1, 1>>, <<393, 394, 1, 205>>, <<395, 395, 1, 1>>,
    <<398, 398, 1, 79>>, <<399, 399, 1, 202>>, <<400, 400, 1, 203>>,
    <<401, 401, 1, 1>>, <<403, 403, 1, 205>>, <<404, 404, 1, 207>>,
    <<406, 406, 1, 211>>, <<407, 407, 1, 209>>, <<408, 408, 1, 1>>,
    <<412, 412, 1, 211>>, <<413, 413, 1, 213>>, <<415, 415, 1, 214>>,
    <<416, 420, 2, 1>>, <<422, 422, 1, 218>>, <<423, 423, 1, 1>>,
    <<425, 425, 1, 218>>, <<428, 428, 1, 1>>, <<430, 430, 1, 218>>,
    <<431, 431, 1, 1>>, <<433, 434, 1, 217>>, <<435, 437, 2, 1>>,
    <<439, 439, 1, 219>>, <<440, 440, 1, 1>>, <<444, 444, 1, 1>>,
    <<452, 452, 1, 2>>, <<453, 453, 1, 1>>, <<455, 455, 1, 2>>,
    <<456, 456, 1, 1>>, <<458, 458, 1, 2>>, <<459, 475, 2, 1>>,
    <<478, 494, 2, 1>>, <<497, 497, 1, 2>>, <<498, 500, 2, 1>>,
    <<502, 502, 1, -97>>, <<503, 503, 1, -56>>, <<504, 542, 2, 1>>,
    <<544, 544, 1, -130>>, <<546, 562, 2, 1>>, <<570, 570, 1, 10795>>,
    <<571, 571, 1, 1>>, <<573, 573, 1, -163>>, <<574, 574, 1, 10792>>,
    <<577, 577, 1, 1>>, <<579, 579, 1, -195>>, <<580, 580, 1, 69>>,
    <<581, 581, 1, 71>>, <<582, 590, 2, 1>>, <<880, 882, 2, 1>>,
    <<886, 886, 1, 1>>, <<895, 895, 1, 116>>, <<902, 902, 1, 38>>,
    <<904, 906, 1, 37>>, <<908, 908, 1, 64>>, <<910, 911, 1, 63>>,
    <<913, 929, 1, 32>>, <<931, 939, 1, 32>>, <<975, 975, 1, 8>>,
    <<984, 1006, 2, 1>>, <<1012, 1012, 1, -60>>, <<1015, 1015, 1, 1>>,
    <<1017, 1017, 1, -7>>, <<1018, 1018, 1, 1>>, <<1021, 1023, 1, -130>>,
    <<1024, 1039, 1, 80>>, <<1040, 1071, 1, 32>>, <<1120, 1152, 2, 1>>,
    <<1162, 1214, 2, 1>>, <<1216, 1216, 1, 15>>, <<1217, 1229, 2, 1>>,
    <<1232, 1326, 2, 1>>, <<1329, 1366, 1, 48>>, <<4256, 4293, 1, 7264>>,
    <<4295, 4295, 1, 7264>>, <<4301, 4301, 1, 7264>>,
    <<5024, 5103, 1, 38864>>, <<5104, 5109, 1, 8>>,
    <<7312, 7354, 1, -3008>>, <<7357, 7359, 1, -3008>>,
    <<7680, 7828, 2, 1>>, <<7838, 7838, 1, -7615>>, <<7840, 7934, 2, 1>>,
    <<7944, 7951, 1, -8>>, <<7960, 7965, 1, -8>>, <<7976, 7983, 1, -8>>,
    <<7992, 7999, 1, -8>>, <<8008, 8013, 1, -8>>, <<8025, 8031, 2, -8>>,
    <<8040, 8047, 1, -8>>, <<8072, 8079, 1, -8>>, <<8088, 8095, 1, -8>>,
    <<8104, 8111, 1, -8>>, <<8120, 8121, 1, -8>>, <<8122, 8123, 1, -74>>,
    <<8124, 8124, 1, -9>>, <<8136, 8139, 1, -86>>, <<8140, 8140, 1, -9>>,
    <<8152, 8153, 1, -8>>, <<8154, 8155, 1, -100>>, <<8168, 8169, 1, -8>>,
    <<8170, 8171, 1, -112>>, <<8172, 8172, 1, -7>>,
    <<8184, 8185, 1, -128>>, <<8186, 8187, 1, -126>>,
    <<8188, 8188, 1, -9>>, <<8486, 8486, 1, -7517>>,
    <<8490, 8490, 1, -8383>>, <<8491, 8491, 1, -8262>>,
    <<8498, 8498, 1, 28>>, <<8544, 8559, 1, 16>>, <<8579, 8579, 1, 1>>,
    <<9398, 9423, 1, 26>>, <<11264, 11311, 1, 48>>, <<11360, 11360, 1, 1>>,
    <<11362, 11362, 1, -10743>>, <<11363, 11363, 1, -3814>>,
    <<11364, 11364, 1, -10727>>, <<11367, 11371, 2, 1>>,
    <<11373, 11373, 1, -10780>>, <<11374, 11374, 1, -10749>>,
    <<11375, 11375, 1, -10783>>, <<11376, 11376, 1, -10782>>,
    <<11378, 11378, 1, 1>>, <<11381, 11381, 1, 1>>,
    <<11390, 11391, 1, -10815>>, <<11392, 11490, 2, 1>>,
    <<11499, 11501, 2, 1>>, <<11506, 11506, 1, 1>>, <<42560, 42604, 2, 1>>,
    <<42624, 42650, 2, 1>>, <<42786, 42798, 2, 1>>, <<42802, 42862, 2, 1>>,
    <<42873, 42875, 2, 1>>, <<42877, 42877, 1, -35332>>,
    <<42878, 42886, 2, 1>>, <<42891, 42891, 1, 1>>,
    <<42893, 42893, 1, -42280>>, <<42896, 42898, 2, 1>>,
    <<42902, 42920, 2, 1>>, <<42922, 42922, 1, -42308>>,
    <<42923, 42923, 1, -42319>>, <<42924, 42924, 1, -42315>>,
    <<42925, 42925, 1, -42305>>, <<42926, 42926, 1, -42308>>,
    <<42928, 42928, 1, -42258>>, <<42929, 42929, 1, -42282>>,
    <<42930, 42930, 1, -42261>>, <<42931, 42931, 1, 928>>,
    <<42932, 42946, 2, 1>>, <<42948, 42948, 1, -48>>,
    <<42949, 42949, 1, -42307>>, <<42950, 42950, 1, -35384>>,
    <<42951, 42953, 2, 1>>, <<42960, 42960, 1, 1>>, <<42966, 42968, 2, 1>>,
    <<42997, 42997, 1, 1>>, <<65313, 65338, 1, 32>>,
    <<66560, 66599, 1, 40>>, <<66736, 66771, 1, 40>>,
    <<66928, 66938, 1, 39>>, <<66940, 66954, 1, 39>>,
    <<66956, 66962, 1, 39>>, <<66964, 66965, 1, 39>>,
    <<68736, 68786, 1, 64>>, <<71840, 71871, 1, 32>>,
    <<93760, 93791, 1, 32>>, <<125184, 125217, 1, 34>>}

\* the code point a code point of LowerRanges is lowered to
LowerCode ==
    LET UpperCodes ==
            UNION {{r[1] + r[3] * k : k \in 0..((r[2] - r[1]) \div r[3])} :
                       r \in LowerRanges}
    IN  [n \in UpperCodes |->
            n + (CHOOSE r \in LowerRanges :
                     /\ n \in r[1]..r[2]
                     /\ (n - r[1]) % r[3] = 0)[4]]

\* the characters str.lower() changes: those of LowerRanges and U+0130
UpperChars == {chr(n) : n \in DOMAIN LowerCode \cup {304}}

\* ranges <<first, last>> of the code points of the cased characters that
\* are not case-ignorable
CasedRanges ==
  {<<65, 90>>, <<97, 122>>, <<170, 170>>, <<181, 181>>, <<186, 186>>,
    <<192, 214>>, <<216, 246>>, <<248, 442>>, <<444, 447>>, <<452, 659>>,
    <<661, 687>>, <<880, 883>>, <<886, 887>>, <<891, 893>>, <<895, 895>>,
    <<902, 902>>, <<904, 906>>, <<908, 908>>, <<910, 929>>, <<931, 1013>>,
    <<1015, 1153>>, <<1162, 1327>>, <<1329, 1366>>, <<1376, 1416>>,
    <<4256, 4293>>, <<4295, 4295>>, <<4301, 4301>>, <<4304, 4346>>,
    <<4349, 4351>>, <<5024, 5109>>, <<5112, 5117>>, <<7296, 7304>>,
    <<7312, 7354>>, <<7357, 7359>>, <<7424, 7467>>, <<7531, 7543>>,
    <<7545, 7578>>, <<7680, 7957>>, <<7960, 7965>>, <<7968, 8005>>,
    <<8008, 8013>>, <<8016, 8023>>, <<8025, 8025>>, <<8027, 8027>>,
    <<8029, 8029>>, <<8031, 8061>>, <<8064, 8116>>, <<8118, 8124>>,
    <<8126, 8126>>, <<8130, 8132>>, <<8134, 8140>>, <<8144, 8147>>,
    <<8150, 8155>>, <<8160, 8172>>, <<8178, 8180>>, <<8182, 8188>>,
    <<8450, 8450>>, <<8455, 8455>>, <<8458, 8467>>, <<8469, 8469>>,
    <<8473, 8477>>, <<8484, 8484>>, <<8486, 8486>>, <<8488, 8488>>,
    <<8490, 8493>>, <<8495, 8500>>, <<8505, 8505>>, <<8508, 8511>>,
    <<8517, 8521>>, <<8526, 8526>>, <<8544, 8575>>, <<8579, 8580>>,
    <<9398, 9449>>, <<11264, 11387>>, <<11390, 11492>>, <<11499, 11502>>,
    <<11506, 11507>>, <<11520, 11557>>, <<11559, 11559>>, <<11565, 11565>>,
    <<42560, 42605>>, <<42624, 42651>>, <<42786, 42863>>, <<42865, 42887>>,
    <<42891, 42894>>, <<42896, 42954>>, <<42960, 42961>>, <<42963, 42963>>,
    <<42965, 42969>>, <<42997, 42998>>, <<43002, 43002>>, <<43824, 43866>>,
    <<43872, 43880>>, <<43888, 43967>>, <<64256, 64262>>, <<64275, 64279>>,
    <<65313, 65338>>, <<65345, 65370>>, <<66560, 66639>>, <<66736, 66771>>,
    <<66776, 66811>>, <<66928, 66938>>, <<66940, 66954>>, <<66956, 66962>>,
    <<66964, 66965>>, <<66967, 66977>>, <<66979, 66993>>, <<66995, 67001>>,
    <<67003, 67004>>, <<68736, 68786>>, <<68800, 68850>>, <<71840, 71903>>,
    <<93760, 93823>>, <<119808, 119892>>, <<119894, 119964>>,
    <<119966, 119967>>, <<119970, 119970>>, <<119973, 119974>>,
    <<119977, 119980>>, <<119982, 119993>>, <<119995, 119995>>,
    <<119997, 120003>>, <<120005, 120069>>, <<120071, 120074>>,
    <<120077, 120084>>, <<120086, 120092>>, <<120094, 120121>>,
    <<120123, 120126>>, <<120128, 120132>>, <<120134, 120134>>,
    <<120138, 120144>>, <<120146, 120485>>, <<120488, 120512>>,
    <<120514, 120538>>, <<120540, 120570>>, <<120572, 120596>>,
    <<120598, 120628>>, <<120630, 120654>>, <<120656, 120686>>,
    <<120688, 120712>>, <<120714, 120744>>, <<120746, 120770>>,
    <<120772, 120779>>, <<122624, 122633>>, <<122635, 122654>>,
    <<125184, 125251>>, <<127280, 127305>>, <<127312, 127337>>,
    <<127344, 127369>>}

\* ranges <<first, last>> of the code points of the case-ignorable characters
CaseIgnorableRanges ==
  {<<39, 39>>, <<46, 46>>, <<58, 58>>, <<94, 94>>, <<96, 96>>,
    <<168, 168>>, <<173, 173>>, <<175, 175>>, <<180, 180>>, <<183, 184>>,
    <<688, 879>>, <<884, 885>>, <<890, 890>>, <<900, 901>>, <<903, 903>>,
    <<1155, 1161>>, <<1369, 1369>>, <<1375, 1375>>, <<1425, 1469>>,
    <<1471, 1471>>, <<1473, 1474>>, <<1476, 1477>>, <<1479, 1479>>,
    <<1524, 1524>>, <<1536, 1541>>, <<1552, 1562>>, <<1564, 1564>>,
    <<1600, 1600>>, <<1611, 1631>>, <<1648, 1648>>, <<1750, 1757>>,
    <<1759, 1768>>, <<1770, 1773>>, <<1807, 1807>>, <<1809, 1809>>,
    <<1840, 1866>>, <<1958, 1968>>, <<2027, 2037>>, <<2042, 2042>>,
    <<2045, 2045>>, <<2070, 2093>>, <<2137, 2139>>, <<2184, 2184>>,
    <<2192, 2193>>, <<2200, 2207>>, <<2249, 2306>>, <<2362, 2362>>,
    <<2364, 2364>>, <<2369, 2376>>, <<2381, 2381>>, <<2385, 2391>>,
    <<2402, 2403>>, <<2417, 2417>>, <<2433, 2433>>, <<2492, 2492>>,
    <<2497, 2500>>, <<2509, 2509>>, <<2530, 2531>>, <<2558, 2558>>,
    <<2561, 2562>>, <<2620, 2620>>, <<2625, 2626>>, <<2631, 2632>>,
    <<2635, 2637>>, <<2641, 2641>>, <<2672, 2673>>, <<2677, 2677>>,
    <<2689, 2690>>, <<2748, 2748>>, <<2753, 2757>>, <<2759, 2760>>,
    <<2765, 2765>>, <<2786, 2787>>, <<2810, 2815>>, <<2817, 2817>>,
    <<2876, 2876>>, <<2879, 2879>>, <<2881, 2884>>, <<2893, 2893>>,
    <<2901, 2902>>, <<2914, 2915>>, <<2946, 2946>>, <<3008, 3008>>,
    <<3021, 3021>>, <<3072, 3072>>, <<3076, 3076>>, <<3132, 3132>>,
    <<3134, 3136>>, <<3142, 3144>>, <<3146, 3149>>, <<3157, 3158>>,
    <<3170, 3171>>, <<3201, 3201>>, <<3260, 3260>>, <<3263, 3263>>,
    <<3270, 3270>>, <<3276, 3277>>, <<3298, 3299>>, <<3328, 3329>>,
    <<3387, 3388>>, <<3393, 3396>>, <<3405, 3405>>, <<3426, 3427>>,
    <<3457, 3457>>, <<3530, 3530>>, <<3538, 3540>>, <<3542, 3542>>,
    <<3633, 3633>>, <<3636, 3642>>, <<3654, 3662>>, <<3761, 3761>>,
    <<3764, 3772>>, <<3782, 3782>>, <<3784, 3789>>, <<3864, 3865>>,
    <<3893, 3893>>, <<3895, 3895>>, <<3897, 3897>>, <<3953, 3966>>,
    <<3968, 3972>>, <<3974, 3975>>, <<3981, 3991>>, <<3993, 4028>>,
    <<4038, 4038>>, <<4141, 4144>>, <<4146, 4151>>, <<4153, 4154>>,
    <<4157, 4158>>, <<4184, 4185>>, <<4190, 4192>>, <<4209, 4212>>,
    <<4226, 4226>>, <<4229, 4230>>, <<4237, 4237>>, <<4253, 4253>>,
    <<4348, 4348>>, <<4957, 4959>>, <<5906, 5908>>, <<5938, 5939>>,
    <<5970, 5971>>, <<6002, 6003>>, <<6068, 6069>>, <<6071, 6077>>,
    <<6086, 6086>>, <<6089, 6099>>, <<6103, 6103>>, <<6109, 6109>>,
    <<6155, 6159>>, <<6211, 6211>>, <<6277, 6278>>, <<6313, 6313>>,
    <<6432, 6434>>, <<6439, 6440>>, <<6450, 6450>>, <<6457, 6459>>,
    <<6679, 6680>>, <<6683, 6683>>, <<6742, 6742>>, <<6744, 6750>>,
    <<6752, 6752>>, <<6754, 6754>>, <<6757, 6764>>, <<6771, 6780>>,
    <<6783, 6783>>, <<6823, 6823>>, <<6832, 6862>>, <<6912, 6915>>,
    <<6964, 6964>>, <<6966, 6970>>, <<6972, 6972>>, <<6978, 6978>>,
    <<7019, 7027>>, <<7040, 7041>>, <<7074, 7077>>, <<7080, 7081>>,
    <<7083, 7085>>, <<7142, 7142>>, <<7144, 7145>>, <<7149, 7149>>,
    <<7151, 7153>>, <<7212, 7219>>, <<7222, 7223>>, <<7288, 7293>>,
    <<7376, 7378>>, <<7380, 7392>>, <<7394, 7400>>, <<7405, 7405>>,
    <<7412, 7412>>, <<7416, 7417>>, <<7468, 7530>>, <<7544, 7544>>,
    <<7579, 7679>>, <<8125, 8125>>, <<8127, 8129>>, <<8141, 8143>>,
    <<8157, 8159>>, <<8173, 8175>>, <<8189, 8190>>, <<8203, 8207>>,
    <<8216, 8217>>, <<8228, 8228>>, <<8231, 8231>>, <<8234, 8238>>,
    <<8288, 8292>>, <<8294, 8303>>, <<8305, 8305>>, <<8319, 8319>>,
    <<8336, 8348>>, <<8400, 8432>>, <<11388, 11389>>, <<11503, 11505>>,
    <<11631, 11631>>, <<11647, 11647>>, <<11744, 11775>>, <<11823, 11823>>,
    <<12293, 12293>>, <<12330, 12333>>, <<12337, 12341>>, <<12347, 12347>>,
    <<12441, 12446>>, <<12540, 12542>>, <<40981, 40981>>, <<42232, 42237>>,
    <<42508, 42508>>, <<42607, 42610>>, <<42612, 42621>>, <<42623, 42623>>,
    <<42652, 42655>>, <<42736, 42737>>, <<42752, 42785>>, <<42864, 42864>>,
    <<42888, 42890>>, <<42994, 42996>>, <<43000, 43001>>, <<43010, 43010>>,
    <<43014, 43014>>, <<43019, 43019>>, <<43045, 43046>>, <<43052, 43052>>,
    <<43204, 43205>>, <<43232, 43249>>, <<43263, 43263>>, <<43302, 43309>>,
    <<43335, 43345>>, <<43392, 43394>>, <<43443, 43443>>, <<43446, 43449>>,
    <<43452, 43453>>, <<43471, 43471>>, <<43493, 43494>>, <<43561, 43566>>,
    <<43569, 43570>>, <<43573, 43574>>, <<43587, 43587>>, <<43596, 43596>>,
    <<43632, 43632>>, <<43644, 43644>>, <<43696, 43696>>, <<43698, 43700>>,
    <<43703, 43704>>, <<43710, 43711>>, <<43713, 43713>>, <<43741, 43741>>,
    <<43756, 43757>>, <<43763, 43764>>, <<43766, 43766>>, <<43867, 43871>>,
    <<43881, 43883>>, <<44005, 44005>>, <<44008, 44008>>, <<44013, 44013>>,
    <<64286, 64286>>, <<64434, 64450>>, <<65024, 65039>>, <<65043, 65043>>,
    <<65056, 65071>>, <<65106, 65106>>, <<65109, 65109>>, <<65279, 65279>>,
    <<65287, 65287>>, <<65294, 65294>>, <<65306, 65306>>, <<65342, 65342>>,
    <<65344, 65344>>, <<65392, 65392>>, <<65438, 65439>>, <<65507, 65507>>,
    <<65529, 65531>>, <<66045, 66045>>, <<66272, 66272>>, <<66422, 66426>>,
    <<67456, 67461>>, <<67463, 67504>>, <<67506, 67514>>, <<68097, 68099>>,
    <<68101, 68102>>, <<68108, 68111>>, <<68152, 68154>>, <<68159, 68159>>,
    <<68325, 68326>>, <<68900, 68903>>, <<69291, 69292>>, <<69446, 69456>>,
    <<69506, 69509>>, <<69633, 69633>>, <<69688, 69702>>, <<69744, 69744>>,
    <<69747, 69748>>, <<69759, 69761>>, <<69811, 69814>>, <<69817, 69818>>,
    <<69821, 69821>>, <<69826, 69826>>, <<69837, 69837>>, <<69888, 69890>>,
    <<69927, 69931>>, <<69933, 69940>>, <<70003, 70003>>, <<70016, 70017>>,
    <<70070, 70078>>, <<70089, 70092>>, <<70095, 70095>>, <<70191, 70193>>,
    <<70196, 70196>>, <<70198, 70199>>, <<70206, 70206>>, <<70367, 70367>>,
    <<70371, 70378>>, <<70400, 70401>>, <<70459, 70460>>, <<70464, 70464>>,
    <<70502, 70508>>, <<70512, 70516>>, <<70712, 70719>>, <<70722, 70724>>,
    <<70726, 70726>>, <<70750, 70750>>, <<70835, 70840>>, <<70842, 70842>>,
    <<70847, 70848>>, <<70850, 70851>>, <<71090, 71093>>, <<71100, 71101>>,
    <<71103, 71104>>, <<71132, 71133>>, <<71219, 71226>>, <<71229, 71229>>,
    <<71231, 71232>>, <<71339, 71339>>, <<71341, 71341>>, <<71344, 71349>>,
    <<71351, 71351>>, <<71453, 71455>>, <<71458, 71461>>, <<71463, 71467>>,
    <<71727, 71735>>, <<71737, 71738>>, <<71995, 71996>>, <<71998, 71998>>,
    <<72003, 72003>>, <<72148, 72151>>, <<72154, 72155>>, <<72160, 72160>>,
    <<72193, 72202>>, <<72243, 72248>>, <<72251, 72254>>, <<72263, 72263>>,
    <<72273, 72278>>, <<72281, 72283>>, <<72330, 72342>>, <<72344, 72345>>,
    <<72752, 72758>>, <<72760, 72765>>, <<72767, 72767>>, <<72850, 72871>>,
    <<72874, 72880>>, <<72882, 72883>>, <<72885, 72886>>, <<73009, 73014>>,
    <<73018, 73018>>, <<73020, 73021>>, <<73023, 73029>>, <<73031, 73031>>,
    <<73104, 73105>>, <<73109, 73109>>, <<73111, 73111>>, <<73459, 73460>>,
    <<78896, 78904>>, <<92912, 92916>>, <<92976, 92982>>, <<92992, 92995>>,
    <<94031, 94031>>, <<94095, 94111>>, <<94176, 94177>>, <<94179, 94180>>,
    <<110576, 110579>>, <<110581, 110587>>, <<110589, 110590>>,
    <<113821, 113822>>, <<113824, 113827>>, <<118528, 118573>>,
    <<118576, 118598>>, <<119143, 119145>>, <<119155, 119170>>,
    <<119173, 119179>>, <<119210, 119213>>, <<119362, 119364>>,
    <<121344, 121398>>, <<121403, 121452>>, <<121461, 121461>>,
    <<121476, 121476>>, <<121499, 121503>>, <<121505, 121519>>,
    <<122880, 122886>>, <<122888, 122904>>, <<122907, 122913>>,
    <<122915, 122916>>, <<122918, 122922>>, <<123184, 123197>>,
    <<123566, 123566>>, <<123628, 123631>>, <<125136, 125142>>,
    <<125252, 125259>>, <<127995, 127999>>, <<917505, 917505>>,
    <<917536, 917631>>, <<917760, 917999>>}

InRanges(c, ranges) == LET n == ord(c) IN \E r \in ranges : n \in r[1]..r[2]

RECURSIVE Concat(_)
Concat(texts) == IF texts = <<>> THEN <<>> ELSE Head(texts) \o Concat(Tail(texts))

\* str.lower().  U+03A3 is lowered to U+03C2 where it ends a word, else to
\* U+03C3: it ends a word when a cased character comes before it and none
\* after it, the case-ignorable characters in between not counting
lower(t) ==
    LET \* str.lower() of a one-character text; U+0130 is lowered to the two
        \* characters U+0069 U+0307
        LowerChar(c) ==
            IF c \notin UpperChars THEN <<c>>
            ELSE IF c = chr(304) THEN <<"i", chr(775)>>
            ELSE <<chr(LowerCode[ord(c)])>>
        FinalSigma(i) ==
            /\ \E j \in 1..(i - 1) :
                   /\ InRanges(t[j], CasedRanges)
                   /\ \A k \in (j + 1)..(i - 1) : InRanges(t[k], CaseIgnorableRanges)
            /\ ~\E j \in (i + 1)..Len(t) :
                   /\ InRanges(t[j], CasedRanges)
                   /\ \A k \in (i + 1)..(j - 1) : InRanges(t[k], CaseIgnorableRanges)
    IN  IF \A i \in 1..Len(t) : t[i] \notin UpperChars THEN t
        ELSE Concat([i \in 1..Len(t) |->
                        IF t[i] = chr(931)
                        THEN <<chr(IF FinalSigma(i) THEN 962 ELSE 963)>>
                        ELSE LowerChar(t[i])])

\* str.strip(): drop leading and trailing whitespace
strip(t) ==
    LET Between(nonws) ==
            IF nonws = {} THEN <<>>
            ELSE SubSeq(t, CHOOSE i \in nonws : \A j \in nonws : i <= j,
                           CHOOSE i \in nonws : \A j \in nonws : i >= j)
    IN  Between({i \in 1..Len(t) : t[i] \notin Whitespace})

\* str.replace(c, ""): delete every occurrence of the character c
RemoveChar(t, c) ==
    LET Other(x) == x # c
    IN  SelectSeq(t, Other)

\* the segments of t between occurrences of the separator character c
RECURSIVE SplitOn(_, _)
SplitOn(t, c) ==
    LET at == {i \in 1..Len(t) : t[i] = c}
    IN  IF at = {} THEN <<t>>
        ELSE LET k == CHOOSE i \in at : \A j \in at : i <= j
             IN  <<SubSeq(t, 1, k - 1)>> \o SplitOn(SubSeq(t, k + 1, Len(t)), c)

AllDigits(t) == \A i \in 1..Len(t) : t[i] \in Digits

AllAsciiDigits(t) == \A i \in 1..Len(t) : t[i] \in AsciiDigits

\* value of a sequence of decimal digits
RECURSIVE NatOf(_)
NatOf(t) ==
    IF t = <<>> THEN 0
    ELSE 10 * NatOf(SubSeq(t, 1, Len(t) - 1)) + DigitVal(t[Len(t)])

\* texts in the order of their code points, a proper prefix first (the
\* order of the store on TEXT columns)
RECURSIVE TextLess(_, _)
TextLess(a, b) ==
    IF b = <<>> THEN FALSE
    ELSE IF a = <<>> THEN TRUE
    ELSE IF Head(a) = Head(b) THEN TextLess(Tail(a), Tail(b))
    ELSE ord(Head(a)) < ord(Head(b))

(***************************************************************************)
(* parse_date (cleaning.py): datetime.strptime over six formats, first     *)
(* match wins.  A date is its proleptic Gregorian ordinal (date.toordinal).*)
(***************************************************************************)
NoMatch == [ok |-> FALSE, val |-> 0]

DaysInMonth(y, m) ==
    LET IsLeap == (y % 4 = 0) /\ ((y % 100 # 0) \/ (y % 400 = 0))
    IN  IF m = 2 THEN (IF IsLeap THEN 29 ELSE 28)
        ELSE IF m \in {4, 6, 9, 11} THEN 30 ELSE 31

RECURSIVE DaysBeforeMonth(_, _)
DaysBeforeMonth(y, m) ==
    IF m = 1 THEN 0 ELSE DaysBeforeMonth(y, m - 1) + DaysInMonth(y, m - 1)

\* date(y, m, d).toordinal()
Ordinal(y, m, d) ==
    365 * (y - 1) + ((y - 1) \div 4) - ((y - 1) \div 100) + ((y - 1) \div 400)
        + DaysBeforeMonth(y, m) + d

\* strptime directives as whole-segment matches: [0-9] is an ASCII digit, \d
\* any decimal digit
\* %Y: \d\d\d\d
MatchY(g) == Len(g) = 4 /\ AllDigits(g)

\* %m: 1[0-2]|0[1-9]|[1-9]
MatchM(g) ==
    /\ Len(g) \in {1, 2}
    /\ AllAsciiDigits(g)
    /\ NatOf(g) \in 1..12

\* %d: 3[0-1]|[1-2]\d|0[1-9]|[1-9]| [1-9]
MatchD(g) ==
    \/ /\ Len(g) = 2
       /\ \/ g[1] = "3" /\ g[2] \in {"0", "1"}
          \/ g[1] \in {"1", "2"} /\ g[2] \in Digits
          \/ g[1] \in {"0", " "} /\ g[2] \in AsciiDigits \ {"0"}
    \/ /\ Len(g) = 1
       /\ g[1] \in AsciiDigits \ {"0"}

\* int() of the text of a day
DayOf(g) == IF g[1] = " " THEN DigitVal(g[2]) ELSE NatOf(g)

\* %M: [0-5]\d|\d, and %S: 6[0-1]|[0-5]\d|\d, of which datetime() refuses
\* the seconds 60 and 61
MatchMS(g) ==
    \/ /\ Len(g) = 2
       /\ g[1] \in {"0", "1", "2", "3", "4", "5"}
       /\ g[2] \in Digits
    \/ /\ Len(g) = 1
       /\ g[1] \in Digits

\* datetime(y, m, d): year in 1..9999 and the day exists in the month
MakeDate(y, m, d) ==
    IF y >= 1 /\ d <= DaysInMonth(y, m)
    THEN [ok |-> TRUE, val |-> Ordinal(y, m, d)]
    ELSE NoMatch

\* "%Y-%m-%d" (sep "-"), year first
TryYMD(t, sep) ==
    LET Fields(g) ==
            IF Len(g) = 3 /\ MatchY(g[1]) /\ MatchM(g[2]) /\ MatchD(g[3])
            THEN MakeDate(NatOf(g[1]), NatOf(g[2]), DayOf(g[3]))
            ELSE NoMatch
    IN  Fields(SplitOn(t, sep))

\* "%m/%d/%Y" and "%m-%d-%Y"
TryMDY(t, sep) ==
    LET Fields(g) ==
            IF Len(g) = 3 /\ MatchM(g[1]) /\ MatchD(g[2]) /\ MatchY(g[3])
            THEN MakeDate(NatOf(g[3]), NatOf(g[1]), DayOf(g[2]))
            ELSE NoMatch
    IN  Fields(SplitOn(t, sep))

\* "%d/%m/%Y" and "%d-%m-%Y"
TryDMY(t, sep) ==
    LET Fields(g) ==
            IF Len(g) = 3 /\ MatchD(g[1]) /\ MatchM(g[2]) /\ MatchY(g[3])
            THEN MakeDate(NatOf(g[3]), NatOf(g[2]), DayOf(g[1]))
            ELSE NoMatch
    IN  Fields(SplitOn(t, sep))

\* t without its leading whitespace
RECURSIVE SkipWhitespace(_)
SkipWhitespace(t) ==
    IF t # <<>> /\ Head(t) \in Whitespace THEN SkipWhitespace(Tail(t)) ELSE t

\* "%Y-%m-%d %H:%M:%S": the day is the first one or two characters after the
\* second "-", the blank of the format is \s+, and the time ends the text
TryYMDHMS(t) ==
    LET \* %H: 2[0-3]|[0-1]\d|\d
        MatchH(h) ==
            \/ /\ Len(h) = 2
               /\ \/ h[1] = "2" /\ h[2] \in {"0", "1", "2", "3"}
                  \/ h[1] \in {"0", "1"} /\ h[2] \in Digits
            \/ /\ Len(h) = 1
               /\ h[1] \in Digits
        \* the text of a time
        MatchTime(c) ==
            Len(c) = 3 /\ MatchH(c[1]) /\ MatchMS(c[2]) /\ MatchMS(c[3])
        \* cut: the lengths of the texts of the day that the rest r of the
        \* text allows
        Day(y, m, r, cut) ==
            IF cut = {} THEN NoMatch
            ELSE MakeDate(NatOf(y), NatOf(m), DayOf(SubSeq(r, 1, CHOOSE p \in cut : TRUE)))
        Rest(y, m, r) ==
            Day(y, m, r,
                {p \in {1, 2} :
                    /\ p < Len(r)
                    /\ MatchD(SubSeq(r, 1, p))
                    /\ r[p + 1] \in Whitespace
                    /\ MatchTime(SplitOn(SkipWhitespace(SubSeq(r, p + 1, Len(r))), ":"))})
        Fields(g) ==
            IF Len(g) = 3 /\ MatchY(g[1]) /\ MatchM(g[2])
            THEN Rest(g[1], g[2], g[3])
            ELSE NoMatch
    IN  Fields(SplitOn(t, "-"))

\* the result of the first format that matches
FirstMatch(results) ==
    LET hits == {i \in 1..Len(results) : results[i].ok}
    IN  IF hits = {} THEN NoMatch
        ELSE results[CHOOSE i \in hits : \A j \in hits : i <= j]

\* mutant: the day-first format is tried before the month-first one
parse_date_DayFirst(date_str) ==
    LET Formats(t) ==
            IF t = <<>> THEN NoMatch
            ELSE FirstMatch(<<TryYMD(t, "-"), TryDMY(t, "/"), TryMDY(t, "/"),
                              TryYMDHMS(t), TryDMY(t, "-"), TryMDY(t, "-")>>)
    IN  IF ~Truthy(date_str) THEN NoMatch ELSE Formats(strip(date_str))

\* cleaning.py 17-49
parse_date(date_str) ==
    LET Formats(t) ==
            IF t = <<>> THEN NoMatch
            ELSE FirstMatch(<<TryYMD(t, "-"), TryMDY(t, "/"), TryDMY(t, "/"),
                              TryYMDHMS(t), TryMDY(t, "-"), TryDMY(t, "-")>>)
    IN  IF ~Truthy(date_str) THEN NoMatch ELSE Formats(strip(date_str))

(***************************************************************************)
(* Numbers.  A float is an IEEE 754 double [cls, neg, m, e]: with cls      *)
(* "finite" it is m * 2^e, negated if neg, where 2^52 <= m < 2^53 and      *)
(* e >= -1074, or m < 2^52 and e = -1074, or m = 0 and e = 0 (0.0 and      *)
(* -0.0); with cls "inf" it is inf or -inf, with "nan" it is nan.  A       *)
(* natural number such as m is kept as its limbs in base 2^15, the lowest  *)
(* first and none for 0.  Every operation gives the double nearest to the  *)
(* exact result, the one with the even significand when two are equally    *)
(* near.                                                                   *)
(***************************************************************************)
Base == 32768

\* the natural number with the limbs s: s without the zeros at its high end
Natural(s) ==
    LET Top(nz) ==
            IF nz = {} THEN <<>> ELSE SubSeq(s, 1, CHOOSE i \in nz : \A j \in nz : j <= i)
    IN  Top({i \in 1..Len(s) : s[i] # 0})

\* a * d + b for 0 <= d <= Base
MulAdd(a, d, b) ==
    LET \* limb i of a * d + b before the carries, below Base * Base
        Wide(i) == (IF i <= Len(a) THEN a[i] * d ELSE 0) + (IF i <= Len(b) THEN b[i] ELSE 0)
        \* the low half of the wide limb i and the high half of the one below
        Halves(i) == (Wide(i) % Base) + (IF i > 1 THEN Wide(i - 1) \div Base ELSE 0)
        \* 1 is carried into limb i of s: the limbs below it are Base - 1
        \* down to one that is Base or more
        Carry(s, i) ==
            \E j \in 1..(i - 1) :
                s[j] >= Base /\ \A k \in (j + 1)..(i - 1) : s[k] = Base - 1
        Carried(s) ==
            [i \in 1..Len(s) |-> (s[i] + (IF Carry(s, i) THEN 1 ELSE 0)) % Base]
        Sum(n) == Carried([i \in 1..(n + 2) |-> Halves(i)])
    IN  Natural(Sum(IF Len(a) > Len(b) THEN Len(a) ELSE Len(b)))

\* quotient q and remainder r of a by n, 0 < n <= 2 * Base
DivRem(a, n) ==
    LET \* the quotient of r * Base^Len(x) + x with its highest limb first
        RECURSIVE Quotient(_, _)
        Quotient(x, r) ==
            LET One(t) == [q |-> <<t \div n>>, r |-> t % n]
                Join(hi, lo) == [q |-> hi.q \o lo.q, r |-> lo.r]
                Low(hi, h) == Join(hi, Quotient(SubSeq(x, 1, h), hi.r))
                Halves(h) == Low(Quotient(SubSeq(x, h + 1, Len(x)), r), h)
            IN  IF x = <<>> THEN [q |-> <<>>, r |-> r]
                ELSE IF Len(x) = 1 THEN One(r * Base + x[1])
                ELSE Halves(Len(x) \div 2)
        Whole(d) == [q |-> Natural([i \in 1..Len(d.q) |-> d.q[Len(d.q) + 1 - i]]), r |-> d.r]
    IN  Whole(Quotient(a, 0))

\* the number of bits of a
BitLen(a) ==
    IF a = <<>> THEN 0
    ELSE 15 * (Len(a) - 1) + CHOOSE k \in 1..15 : a[Len(a)] \div 2^(k - 1) = 1

\* a * 2^k
ShiftLeft(a, k) ==
    LET Limb(i, p) ==
            (IF 1 <= i /\ i <= Len(a) THEN (a[i] * p) % Base ELSE 0)
            + (IF 2 <= i /\ i - 1 <= Len(a) THEN (a[i - 1] * p) \div Base ELSE 0)
    IN  Natural([i \in 1..(Len(a) + k \div 15 + 1) |-> Limb(i - k \div 15, 2^(k % 15))])

\* q = a \div 2^k, half: bit k - 1 of a is set, low: a bit below it is set
ShiftRight(a, k) ==
    LET Bit(j) ==
            /\ j >= 0
            /\ j \div 15 < Len(a)
            /\ (a[j \div 15 + 1] \div 2^(j % 15)) % 2 = 1
        LowBits(j) ==
            /\ j > 0
            /\ \/ \E i \in 1..Len(a) : i <= j \div 15 /\ a[i] # 0
               \/ j \div 15 < Len(a) /\ a[j \div 15 + 1] % 2^(j % 15) # 0
        Limb(i, p) ==
            (a[i] \div p) + (IF i < Len(a) THEN (a[i + 1] % p) * (Base \div p) ELSE 0)
    IN  [q |-> Natural([i \in 1..(Len(a) - k \div 15) |-> Limb(i + k \div 15, 2^(k % 15))]),
         half |-> Bit(k - 1),
         low |-> LowBits(k - 1)]

Infinity == [cls |-> "inf", neg |-> FALSE, m |-> <<>>, e |-> 0]

NaN == [cls |-> "nan", neg |-> FALSE, m |-> <<>>, e |-> 0]

\* the double nearest to (n + s) * 2^e, negated if neg, with 0 < s < 1 if
\* sticky and s = 0 if not (n has 55 bits or more when sticky)
RoundDouble(neg, n, e, sticky) ==
    LET \* m = 2^53 is 2^52 with the next exponent
        Finite(m, t) ==
            IF m = <<>> THEN [cls |-> "finite", neg |-> neg, m |-> <<>>, e |-> 0]
            ELSE IF BitLen(m) + t > 1024 THEN [Infinity EXCEPT !.neg = neg]
            ELSE IF BitLen(m) = 54
                 THEN [cls |-> "finite", neg |-> neg, m |-> ShiftRight(m, 1).q, e |-> t + 1]
            ELSE [cls |-> "finite", neg |-> neg, m |-> m, e |-> t]
        Nearest(s) ==
            IF s.half /\ (s.low \/ sticky \/ (s.q # <<>> /\ s.q[1] % 2 = 1))
            THEN MulAdd(s.q, 1, <<1>>)
            ELSE s.q
        \* t: the exponent of the result
        Cut(t) == Finite(IF t <= e THEN ShiftLeft(n, e - t)
                         ELSE Nearest(ShiftRight(n, t - e)), t)
    IN  Cut(IF BitLen(n) + e - 53 < -1074 THEN -1074 ELSE BitLen(n) + e - 53)

\* float(n) of an integer
Num(n) ==
    LET Double(a) ==
            IF a = <<>> THEN [cls |-> "finite", neg |-> FALSE, m |-> <<>>, e |-> 0]
            ELSE [cls |-> "finite", neg |-> n < 0,
                  m |-> ShiftLeft(a, 53 - BitLen(a)), e |-> BitLen(a) - 53]
        Limbs(a) == Natural(<<a % Base, (a \div Base) % Base, a \div (Base * Base)>>)
    IN  Double(Limbs(IF n < 0 THEN 0 - n ELSE n))

\* x is 0.0 or -0.0
IsZero(x) == x.cls = "finite" /\ x.m = <<>>

\* x < 0 (False for nan and for -0.0)
IsNegative(x) == x.cls # "nan" /\ x.neg /\ ~IsZero(x)

\* x + y
Add(x, y) ==
    LET NatLess(a, b) ==
            IF Len(a) # Len(b) THEN Len(a) < Len(b)
            ELSE LET D == {i \in 1..Len(a) : a[i] # b[i]}
                 IN  D # {} /\ LET i == CHOOSE i \in D : \A j \in D : j <= i IN a[i] < b[i]
        \* a - b for a >= b: 1 is borrowed from limb i when the limbs below
        \* it are equal down to one where that of a is the smaller
        Minus(a, b) ==
            LET Diff(i) == a[i] - (IF i <= Len(b) THEN b[i] ELSE 0)
                Borrow(i) ==
                    \E j \in 1..(i - 1) :
                        Diff(j) < 0 /\ \A k \in (j + 1)..(i - 1) : Diff(k) <= 0
            IN  Natural([i \in 1..Len(a) |->
                            (Diff(i) - (IF Borrow(i) THEN 1 ELSE 0)) % Base])
        \* a * 2^e of the sign of x plus b * 2^e of the sign of y
        Sum(a, b, e) ==
            IF x.neg = y.neg THEN [neg |-> x.neg, n |-> MulAdd(a, 1, b), e |-> e]
            ELSE IF NatLess(a, b) THEN [neg |-> y.neg, n |-> Minus(b, a), e |-> e]
            ELSE [neg |-> x.neg /\ a # b, n |-> Minus(a, b), e |-> e]
        \* an addend below 2^(top - 64) only tells to which side the sum is
        \* rounded, and 2^(top - 120) tells the same
        Part(z, top) ==
            IF BitLen(z.m) + z.e < top - 64 THEN [m |-> <<1>>, e |-> top - 120] ELSE z
        Aligned(a, b, e) == Sum(ShiftLeft(a.m, a.e - e), ShiftLeft(b.m, b.e - e), e)
        Parts(a, b) == Aligned(a, b, IF a.e < b.e THEN a.e ELSE b.e)
        Tops(tx, ty) == Parts(Part(x, ty), Part(y, tx))
        Rounded(s) == RoundDouble(s.neg, s.n, s.e, FALSE)
    IN  IF x.cls = "nan" \/ y.cls = "nan" THEN NaN
        ELSE IF x.cls = "inf" THEN (IF y.cls = "inf" /\ y.neg # x.neg THEN NaN ELSE x)
        ELSE IF y.cls = "inf" THEN y
        ELSE IF IsZero(x) /\ IsZero(y) THEN [x EXCEPT !.neg = x.neg /\ y.neg]
        ELSE IF IsZero(x) THEN y
        ELSE IF IsZero(y) THEN x
        ELSE Rounded(Tops(BitLen(x.m) + x.e, BitLen(y.m) + y.e))

\* x * y
Mul(x, y) ==
    LET RECURSIVE NatMul(_, _)
        NatMul(a, b) ==
            IF b = <<>> THEN <<>>
            ELSE MulAdd(a, Head(b), <<0>> \o NatMul(a, Tail(b)))
    IN  IF x.cls = "nan" \/ y.cls = "nan" THEN NaN
        ELSE IF x.cls = "inf" \/ y.cls = "inf"
             THEN IF IsZero(x) \/ IsZero(y) THEN NaN
                  ELSE [Infinity EXCEPT !.neg = x.neg # y.neg]
        ELSE RoundDouble(x.neg # y.neg, NatMul(x.m, y.m), x.e + y.e, FALSE)

\* x / n for an integer n, 0 < n <= 2 * Base
Div(x, n) ==
    LET Quotient(d) == RoundDouble(x.neg, d.q, x.e - 73, d.r # 0)
    IN  IF x.cls # "finite" THEN x ELSE Quotient(DivRem(ShiftLeft(x.m, 73), n))

\* a * 10^k
RECURSIVE Times10(_, _)
Times10(a, k) ==
    IF a = <<>> \/ k = 0 THEN a
    ELSE IF k = 1 THEN MulAdd(a, 10, <<>>)
    ELSE Times10(Times10(a, k \div 2), k - k \div 2)

\* the double nearest to d * 10^x, negated if neg
FromDecimal(neg, d, x) ==
    LET \* a.q \div 10^k, with r = 1 if a.r = 1 or a division left a remainder
        RECURSIVE Over10(_, _)
        Over10(a, k) ==
            LET Tenth(p) == [q |-> p.q, r |-> IF a.r # 0 \/ p.r # 0 THEN 1 ELSE 0]
            IN  IF a.q = <<>> \/ k = 0 THEN a
                ELSE IF k = 1 THEN Tenth(DivRem(a.q, 10))
                ELSE Over10(Over10(a, k \div 2), k - k \div 2)
        \* d * 10^x = (p.q + s) * 2^p.e with 0 < s < 1 if p.r = 1, s = 0 if not
        Scaled(k) ==
            IF x >= 0 THEN [q |-> Times10(d, x), r |-> 0, e |-> 0]
            ELSE [e |-> 0 - k] @@ Over10([q |-> ShiftLeft(d, k), r |-> 0], 0 - x)
        Nearest(p) == RoundDouble(neg, p.q, p.e, p.r # 0)
    IN  Nearest(Scaled(56 - 4 * x))

\* round(number, ndigits) for ndigits >= 0 (floatobject.c, double_round): the
\* decimal with ndigits digits after the point nearest to number, the even
\* one of two equally near, read back as a double
round(number, ndigits) ==
    LET Half(s) == IF s.half /\ (s.low \/ (s.q # <<>> /\ s.q[1] % 2 = 1))
                   THEN MulAdd(s.q, 1, <<1>>) ELSE s.q
        Scaled(n) == IF number.e >= 0 THEN ShiftLeft(n, number.e)
                     ELSE Half(ShiftRight(n, 0 - number.e))
    IN  IF number.cls # "finite" THEN number
        ELSE FromDecimal(number.neg, Scaled(Times10(number.m, ndigits)), 0 - ndigits)

\* the REAL the store keeps for a float other than nan: -0.0 is kept as 0.0
Real(x) == IF IsZero(x) THEN [x EXCEPT !.neg = FALSE] ELSE x

(***************************************************************************)
(* float(text) and parse_float (cleaning.py).  float() turns every decimal *)
(* digit into its ASCII digit and every whitespace character above U+007F  *)
(* into a blank, drops the whitespace at both ends, takes underscores      *)
(* between digits out and reads a decimal literal, inf, infinity or nan.   *)
(***************************************************************************)
DropLeadingZeros(d) ==
    LET From(nz) ==
            IF nz = {} THEN <<>>
            ELSE SubSeq(d, CHOOSE i \in nz : \A j \in nz : i <= j, Len(d))
    IN  From({i \in 1..Len(d) : d[i] # "0"})

\* pystrtod.c: inf, infinity and nan in any case, or a decimal literal,
\* digits [. digits] [(e|E) [sign] digits] with a digit before the exponent
UnsignedFloat(u) ==
    LET \* the number written with the decimal digits t
        RECURSIVE NatDigits(_)
        NatDigits(t) ==
            LET Sum(high, low) ==
                    IF high = <<>> THEN low ELSE MulAdd(high, 1, low)
                Halves(h) ==
                    Sum(Times10(NatDigits(SubSeq(t, 1, h)), Len(t) - h),
                        NatDigits(SubSeq(t, h + 1, Len(t))))
            IN  IF Len(t) <= 1 THEN Natural([k \in 1..Len(t) |-> DigitVal(t[k])])
                ELSE Halves(Len(t) \div 2)
        \* the digits d of an exponent: with seven digits or more the float
        \* is 0 or inf, as it is with 9999999
        Magnitude(d) == IF Len(d) > 6 THEN 9999999 ELSE NatOf(d)
        \* the exponent after e or E: [sign] digits
        ExponentOf(x) ==
            IF x # <<>> /\ Head(x) \in {"+", "-"}
            THEN IF Tail(x) = <<>> \/ ~AllAsciiDigits(Tail(x)) THEN NoMatch
                 ELSE [ok |-> TRUE,
                       val |-> IF Head(x) = "-"
                               THEN 0 - Magnitude(DropLeadingZeros(Tail(x)))
                               ELSE Magnitude(DropLeadingZeros(Tail(x)))]
            ELSE IF x = <<>> \/ ~AllAsciiDigits(x) THEN NoMatch
                 ELSE [ok |-> TRUE, val |-> Magnitude(DropLeadingZeros(x))]
        \* the mantissa split at its point, and the exponent: the digits
        \* i . f, i without leading zeros, times 10^e
        Literal(g, exp) ==
            IF /\ Len(g) <= 2
               /\ AllAsciiDigits(g[1])
               /\ Len(g) = 2 => AllAsciiDigits(g[2])
               /\ Len(g[1]) + (IF Len(g) = 2 THEN Len(g[2]) ELSE 0) > 0
               /\ exp.ok
            THEN [ok |-> TRUE,
                  i |-> DropLeadingZeros(g[1]),
                  f |-> IF Len(g) = 2 THEN g[2] ELSE <<>>,
                  e |-> exp.val]
            ELSE NoMatch
        \* the literal with its first e or E at ePos
        SplitAt(ePos) ==
            Literal(SplitOn(SubSeq(u, 1, ePos - 1), "."),
                    ExponentOf(SubSeq(u, ePos + 1, Len(u))))
        \* es: the positions of e and E
        Decimal(es) ==
            IF es = {} THEN Literal(SplitOn(u, "."), [ok |-> TRUE, val |-> 0])
            ELSE SplitAt(CHOOSE i \in es : \A j \in es : i <= j)
        \* a value other than 0 lies in [10^(top - 1), 10^top)
        Top(p) ==
            IF p.i # <<>> THEN Len(p.i) + p.e
            ELSE p.e - (Len(p.f) - Len(DropLeadingZeros(p.f)))
        \* the float of the literal p: a value of 10^309 or more is read as
        \* inf, one below 10^-324 as 0
        Value(p) ==
            IF ~p.ok THEN NoMatch
            ELSE [ok |-> TRUE,
                  val |-> IF p.i = <<>> /\ DropLeadingZeros(p.f) = <<>> THEN Num(0)
                          ELSE IF Top(p) >= 310 THEN Infinity
                          ELSE IF Top(p) <= -324 THEN Num(0)
                          ELSE FromDecimal(FALSE, NatDigits(p.i \o p.f), p.e - Len(p.f))]
    IN  IF lower(u) \in {<<"i", "n", "f">>, <<"i", "n", "f", "i", "n", "i", "t", "y">>}
        THEN [ok |-> TRUE, val |-> Infinity]
        ELSE IF lower(u) = <<"n", "a", "n">> THEN [ok |-> TRUE, val |-> NaN]
        ELSE Value(Decimal({i \in 1..Len(u) : u[i] \in {"e", "E"}}))

\* float(text)
float(text) ==
    LET \* unicodeobject.c, _PyUnicode_TransformDecimalAndSpaceToASCII
        ToAscii(t) ==
            [i \in 1..Len(t) |->
                IF ord(t[i]) <= 127 THEN t[i]
                ELSE IF t[i] \in Digits THEN ToString(DigitVal(t[i]))
                ELSE IF t[i] \in Whitespace THEN " "
                ELSE "?"]
        \* a without the whitespace (Py_ISSPACE) at its two ends, keep being
        \* the positions of its other characters
        Trim(a, keep) ==
            IF keep = {} THEN <<>>
            ELSE SubSeq(a, CHOOSE i \in keep : \A j \in keep : i <= j,
                           CHOOSE i \in keep : \A j \in keep : i >= j)
        Trimmed(a) ==
            Trim(a, {i \in 1..Len(a) :
                        a[i] \notin {"\t", "\n", chr(11), "\f", "\r", " "}})
        \* an underscore stands between two digits
        UnderscoresOk(s) ==
            \A i \in 1..Len(s) :
                s[i] = "_" => /\ i > 1 /\ s[i - 1] \in AsciiDigits
                              /\ i < Len(s) /\ s[i + 1] \in AsciiDigits
        \* the sign of the text t without its underscores and what follows it
        Sign(ok, t) ==
            IF ~ok \/ t = <<>> THEN [ok |-> FALSE, neg |-> FALSE, rest |-> <<>>]
            ELSE [ok |-> TRUE, neg |-> Head(t) = "-",
                  rest |-> IF Head(t) \in {"-", "+"} THEN Tail(t) ELSE t]
        Plain(s) == Sign(UnderscoresOk(s), RemoveChar(s, "_"))
        Signed(p, v) ==
            IF ~p.ok \/ ~v.ok THEN NoMatch
            ELSE IF p.neg /\ v.val # NaN THEN [ok |-> TRUE, val |-> [v.val EXCEPT !.neg = TRUE]]
            ELSE v
    IN  Signed(Plain(Trimmed(ToAscii(text))),
               UnsignedFloat(Plain(Trimmed(ToAscii(text))).rest))

\* cleaning.py 52-71
parse_float(value) ==
    IF ~Truthy(value) \/ strip(value) = <<>> THEN NoMatch
    ELSE float(RemoveChar(RemoveChar(RemoveChar(strip(value), "$"), ","), " "))

(***************************************************************************)
(* clean_transaction (cleaning.py): a raw record becomes cleaned data or a *)
(* ValueError.  The pass-through columns category, payment_method and city *)
(* take part in no decision and are left out of the records.               *)
(***************************************************************************)
Sentinels == {<<"n", "u", "l", "l">>, <<"n", "o", "n", "e">>, <<>>}

ValueError == [ok |-> FALSE]

\* mutant: a negative quantity or price is kept
ClampNegative_Keep(x) == x

\* a negative quantity or price is set to 0
ClampNegative(x) == IF IsNegative(x) THEN Num(0) ELSE x

clean_transaction(raw_transaction) ==
    LET text(v) == IF Truthy(v) THEN strip(v) ELSE <<>>
        missing(v) == v = None \/ lower(strip(v)) \in Sentinels
        dateBad(v) ==
            \/ ~Truthy(v)
            \/ lower(strip(v)) \in Sentinels \cup {<<"i", "n", "v", "a", "l", "i", "d", "_",
                                                     "d", "a", "t", "e">>}
        cleaned_data(tid, date, customer_id, product, quantity, price) ==
            IF dateBad(raw_transaction.transaction_date) \/ ~date.ok THEN ValueError
            ELSE IF customer_id = <<>> THEN ValueError
            ELSE IF product = <<>> THEN ValueError
            ELSE IF missing(raw_transaction.quantity) \/ ~quantity.ok THEN ValueError
            ELSE IF missing(raw_transaction.price) \/ ~price.ok THEN ValueError
            ELSE [ok |-> TRUE,
                  transaction_id |-> tid,
                  transaction_date |-> date.val,
                  customer_id |-> customer_id,
                  product |-> product,
                  quantity |-> ClampNegative(quantity.val),
                  price |-> ClampNegative(price.val),
                  total_amount |-> Mul(ClampNegative(quantity.val),
                                       ClampNegative(price.val))]
    IN  cleaned_data(IF Truthy(raw_transaction.transaction_id)
                     THEN strip(raw_transaction.transaction_id) ELSE None,
                     parse_date(raw_transaction.transaction_date),
                     text(raw_transaction.customer_id),
                     text(raw_transaction.product),
                     parse_float(raw_transaction.quantity),
                     parse_float(raw_transaction.price))

(***************************************************************************)
(* The uploaded rows.  A parsed row is what parse_csv_file returns for one *)
(* CSV line: every value trimmed, "" for an empty cell.                    *)
(***************************************************************************)
TxtT1 == <<"T", "1">>
TxtC1 == <<"C", "1">>
TxtP1 == <<"P", "1">>
TxtDay1 == <<"2", "0", "2", "4", "-", "0", "1", "-", "0", "1">>
TxtDay2 == <<"2", "0", "2", "4", "-", "0", "1", "-", "0", "2">>

ParsedRow(tid, date, cust, prod, qty, price) ==
    [transaction_id |-> tid, transaction_date |-> date, customer_id |-> cust,
     product |-> prod, quantity |-> qty, price |-> price]

\* id T1, 2024-01-01, 2 x 100
RowA == ParsedRow(TxtT1, TxtDay1, TxtC1, TxtP1, <<"2">>, <<"1", "0", "0">>)
\* id T1 again with other fields: 2024-01-02, 1 x 50
RowB == ParsedRow(TxtT1, TxtDay2, TxtC1, TxtP1, <<"1">>, <<"5", "0">>)
\* no id, 2024-01-02, 1 x 50 (the composite key of RowB)
RowC == ParsedRow(<<>>, TxtDay2, TxtC1, TxtP1, <<"1">>, <<"5", "0">>)
\* RowA, RowB, RowC, a row with id T1 that the Cleaner rejects (sentinel
\* date) and a row that ingestion rejects (empty customer id)
RowTemplates ==
    {RowA, RowB, RowC,
     ParsedRow(TxtT1, <<"i", "n", "v", "a", "l", "i", "d", "_", "d", "a", "t", "e">>,
               TxtC1, TxtP1, <<"2">>, <<"1", "0", "0">>),
     ParsedRow(<<>>, TxtDay1, <<>>, TxtP1, <<"2">>, <<"1", "0", "0">>)}

\* the rows uploaded by the concurrent requests of SpecConc: the valid ones
ConcTemplates == {RowA, RowB, RowC}

\* both leading fields of the date at most 12, slashes
RowSlashMD == ParsedRow(<<>>, <<"0", "1", "/", "0", "5", "/", "2", "0", "2", "4">>, TxtC1, TxtP1, <<"2">>, <<"1", "0", "0">>)
\* first field above 12, slashes
RowSlashDM == ParsedRow(<<>>, <<"1", "3", "/", "0", "5", "/", "2", "0", "2", "4">>, TxtC1, TxtP1, <<"2">>, <<"1", "0", "0">>)
\* quantity inf, price 2
RowInf == ParsedRow(<<>>, TxtDay1, TxtC1, TxtP1, <<"i", "n", "f">>, <<"2">>)

\* rows for the Cleaner's conversions: but for RowA none has an id, so each is
\* stored unless its five fields are those of an earlier one
CleanTemplates ==
    {RowA, RowSlashMD, RowSlashDM, RowInf,
     \* quantity 0.1, price 3: the total is rounded to 0.30000000000000004
     ParsedRow(<<>>, TxtDay1, TxtC1, TxtP1, <<"0", ".", "1">>, <<"3">>),
     \* quantity 0.2, price 1
     ParsedRow(<<>>, TxtDay1, TxtC1, TxtP1, <<"0", ".", "2">>, <<"1">>),
     \* quantity -0.0, which is not below 0 and is stored as 0.0
     ParsedRow(<<>>, TxtDay1, TxtC1, TxtP1, <<"-", "0", ".", "0">>, <<"3">>),
     \* quantity -1.5, price $2.50
     ParsedRow(<<>>, TxtDay1, TxtC1, TxtP1,
               <<"-", "1", ".", "5">>, <<"$", "2", ".", "5", "0">>),
     \* quantity 2, price -100
     ParsedRow(<<>>, TxtDay1, TxtC1, TxtP1, <<"2">>, <<"-", "1", "0", "0">>),
     \* both leading fields at most 12, dashes
     ParsedRow(<<>>, <<"0", "5", "-", "0", "1", "-", "2", "0", "2", "4">>,
               TxtC1, TxtP1, <<"2">>, <<"1", "0", "0">>),
     \* first field above 12, dashes
     ParsedRow(<<>>, <<"1", "3", "-", "0", "5", "-", "2", "0", "2", "4">>,
               TxtC1, TxtP1, <<"2">>, <<"1", "0", "0">>),
     \* date and time
     ParsedRow(<<>>, <<"2", "0", "2", "4", "-", "0", "1", "-", "0", "5", " ",
                       "1", "0", ":", "3", "0", ":", "0", "0">>,
               TxtC1, TxtP1, <<"2">>, <<"1", "0", "0">>),
     \* sentinel in upper case
     ParsedRow(<<>>, <<"N", "U", "L", "L">>, TxtC1, TxtP1, <<"2">>, <<"1", "0", "0">>),
     \* sentinels in mixed case
     ParsedRow(<<>>, <<"N", "o", "n", "e">>, TxtC1, TxtP1, <<"2">>, <<"1", "0", "0">>),
     ParsedRow(<<>>, <<"I", "n", "v", "a", "l", "i", "d", "_", "D", "a", "t", "e">>,
               TxtC1, TxtP1, <<"2">>, <<"1", "0", "0">>),
     \* no month 13 in either reading
     ParsedRow(<<>>, <<"1", "3", "/", "1", "3", "/", "2", "0", "2", "4">>,
               TxtC1, TxtP1, <<"2">>, <<"1", "0", "0">>),
     \* no date at all
     ParsedRow(<<>>, <<>>, TxtC1, TxtP1, <<"2">>, <<"1", "0", "0">>)}

\* rows with amounts the store refuses, beside rows it takes
RefusedTemplates ==
    {RowA, RowB, RowInf,
     \* quantity nan: float() reads it, the store refuses it
     ParsedRow(<<>>, TxtDay1, TxtC1, TxtP1, <<"n", "a", "n">>, <<"1", "0", "0">>),
     \* the same with the id of RowA
     ParsedRow(TxtT1, TxtDay1, TxtC1, TxtP1, <<"N", "a", "N">>, <<"1", "0", "0">>),
     \* a customer whose id sorts before C1
     ParsedRow(<<>>, TxtDay1, <<"B", "1">>, TxtP1, <<"2">>, <<"1", "0", "0">>)}

\* total number of rows uploaded in SpecRefused
MaxRefusedRows == 2

\* total number of rows uploaded in SpecClean
MaxCleanRows == 2

\* total number of rows uploaded in one run of the model
MaxRows == 3

\* number of store failures (other than uniqueness violations) injected
MaxFaults == 1

\* total number of rows uploaded by the two concurrent requests of SpecConc
MaxConcRows == 3

RECURSIVE SeqsUpTo(_, _)
SeqsUpTo(S, n) ==
    IF n = 0 THEN {<<>>}
    ELSE LET shorter == SeqsUpTo(S, n - 1)
         IN  shorter \cup {Append(q, x) : q \in shorter, x \in S}

(***************************************************************************)
(* State.  Every table is the sequence of its rows in insertion order; a   *)
(* row's primary key id is its position.  A worker is one request served   *)
(* by upload_csv; req[w] holds the local variables of the request and the  *)
(* state of its SQLAlchemy session.                                        *)
(***************************************************************************)
VARIABLES
    raw_transactions,       \* table RawTransaction
    cleaned_transactions,   \* table CleanedTransaction
    daily_sales_summary,    \* table DailySalesSummary
    customer_summary,       \* table CustomerSummary
    feature_engineering,    \* table FeatureEngineering
    data_quality_metrics,   \* table DataQualityMetrics
    pc,                     \* pc[w]: the stage worker w is at
    req,                    \* req[w]: locals of the request of worker w
    rows_used,              \* rows uploaded so far (bounded by MaxRows)
    faults,                 \* store failures injected so far (bounded by MaxFaults)
    customer_index          \* the index SQLite walks for GROUP BY customer_id

vars == <<raw_transactions, cleaned_transactions, daily_sales_summary,
          customer_summary, feature_engineering, data_quality_metrics,
          pc, req, rows_used, faults, customer_index>>

tables == <<raw_transactions, cleaned_transactions, daily_sales_summary,
            customer_summary, feature_engineering, data_quality_metrics>>

Workers == {"w1", "w2"}

NoData == [ok |-> FALSE]

(***************************************************************************)
(* The uploaded file.  A file is its name's suffix, whether its bytes are  *)
(* UTF-8, its first line (the header cells) and its other lines (the cells *)
(* of each line; <<>> is a blank line).                                    *)
(***************************************************************************)
ColTransactionId == <<"t", "r", "a", "n", "s", "a", "c", "t", "i", "o", "n", "_", "i", "d">>
ColTransactionDate == <<"t", "r", "a", "n", "s", "a", "c", "t", "i", "o", "n", "_", "d", "a", "t", "e">>
ColCustomerId == <<"c", "u", "s", "t", "o", "m", "e", "r", "_", "i", "d">>
ColProduct == <<"p", "r", "o", "d", "u", "c", "t">>
ColQuantity == <<"q", "u", "a", "n", "t", "i", "t", "y">>
ColPrice == <<"p", "r", "i", "c", "e">>

\* validate_csv_schema (ingestion.py 16-45): TRUE when it returns, FALSE when
\* it raises
validate_csv_schema(header) ==
    LET \* ingestion.py 30: {col.strip().lower() for col in header}
        header_set == {lower(strip(header[p])) : p \in 1..Len(header)}
        \* ingestion.py 33
        required_columns ==
            {ColTransactionDate, ColCustomerId, ColProduct, ColQuantity, ColPrice}
    IN  /\ header # <<>>
        /\ required_columns \subseteq header_set

\* csv.DictReader skips the lines without any cell
DataLines(file) ==
    LET nonblank == {p \in 1..Len(file.lines) : file.lines[p] # <<>>}
        RECURSIVE Pick(_)
        Pick(p) == IF p > Len(file.lines) THEN <<>>
                   ELSE IF p \in nonblank THEN <<file.lines[p]>> \o Pick(p + 1)
                        ELSE Pick(p + 1)
    IN  Pick(1)

\* the value a normalized row holds for a column name (ingestion.py 71-80).
\* The row of csv.DictReader has one key per distinct header cell, in the
\* order in which the cells first stand in the header, and the value of a key
\* is the cell under the last header cell equal to it, None when the line is
\* too short; of the keys with this normalized name the last one gives the
\* value, trimmed, "" for None.  A name the header lacks is given "" as well:
\* every reader of the row uses .get(name) with "" or None as the default
NormalizedCell(header, line, name) ==
    LET keys == {p \in 1..Len(header) : \A o \in 1..(p - 1) : header[o] # header[p]}
        at == {p \in keys : lower(strip(header[p])) = name}
        Cell(p) == IF p <= Len(line) THEN strip(line[p]) ELSE <<>>
        Value(key) ==
            Cell(CHOOSE p \in 1..Len(header) :
                     /\ header[p] = header[key]
                     /\ \A o \in (p + 1)..Len(header) : header[o] # header[key])
    IN  IF at = {} THEN <<>>
        ELSE Value(CHOOSE q \in at : \A o \in at : o <= q)

\* parse_csv_file (ingestion.py 48-87): ok is FALSE when it raises ValueError
parse_csv_file(file) ==
    LET \* csv.DictReader files the cells beyond the header under the key None,
        \* and normalized_header[None] raises KeyError (ingestion.py 76-79)
        HasExtraCells ==
            \E p \in 1..Len(file.lines) : Len(file.lines[p]) > Len(file.header)
        \* csv.field_size_limit(): the reader raises on a longer cell
        field_size_limit == 131072
        HasLongCell ==
            \/ \E p \in 1..Len(file.header) : Len(file.header[p]) > field_size_limit
            \/ \E p \in 1..Len(file.lines) : \E q \in 1..Len(file.lines[p]) :
                   Len(file.lines[p][q]) > field_size_limit
        NormalizedRow(line) ==
            ParsedRow(NormalizedCell(file.header, line, ColTransactionId),
                      NormalizedCell(file.header, line, ColTransactionDate),
                      NormalizedCell(file.header, line, ColCustomerId),
                      NormalizedCell(file.header, line, ColProduct),
                      NormalizedCell(file.header, line, ColQuantity),
                      NormalizedCell(file.header, line, ColPrice))
    IN  IF \/ ~file.decodable
           \/ file.header = <<>>
           \/ ~validate_csv_schema(file.header)
           \/ HasExtraCells
           \/ HasLongCell
        THEN [ok |-> FALSE, transactions |-> <<>>]
        ELSE [ok |-> TRUE,
              transactions |-> [p \in 1..Len(DataLines(file)) |->
                                   NormalizedRow(DataLines(file)[p])]]

CsvFile(is_csv, decodable, header, lines) ==
    [filename_csv |-> is_csv, decodable |-> decodable, header |-> header,
     lines |-> lines]

HeaderFull ==
    <<ColTransactionId, ColTransactionDate, ColCustomerId, ColProduct,
      ColQuantity, ColPrice>>

\* the cells of RowA under HeaderFull
LineA == <<TxtT1, TxtDay1, TxtC1, TxtP1, <<"2">>, <<"1", "0", "0">>>>
\* fewer cells than the header: no product, quantity or price
LineShort == <<TxtT1, TxtDay1, TxtC1>>

FileTemplates ==
    {CsvFile(TRUE, TRUE, HeaderFull, <<LineA>>),
     \* a blank line, then the cells of RowC
     CsvFile(TRUE, TRUE, HeaderFull,
             <<LineA, <<>>, <<<<>>, TxtDay2, TxtC1, TxtP1, <<"1">>, <<"5", "0">>>>>>),
     \* no transaction_id column, names in mixed case with blanks around
     \* them, and cells with blanks around them
     CsvFile(TRUE, TRUE,
             <<<<" ", "T", "r", "a", "n", "s", "a", "c", "t", "i", "o", "n", "_",
                 "D", "a", "t", "e", " ">>,
               <<"C", "U", "S", "T", "O", "M", "E", "R", "_", "I", "D">>,
               <<"P", "r", "o", "d", "u", "c", "t">>, ColQuantity, ColPrice>>,
             <<<<TxtDay1, <<" ", "C", "1", " ">>, TxtP1, <<"2">>, <<"1", "0", "0">>>>>>),
     CsvFile(TRUE, TRUE, HeaderFull, <<LineShort>>),
     \* the required cells only: quantity and price are absent
     CsvFile(TRUE, TRUE, HeaderFull, <<<<TxtT1, TxtDay1, TxtC1, TxtP1>>, LineShort>>),
     \* one cell more than the header
     CsvFile(TRUE, TRUE, HeaderFull, <<LineA \o <<<<"x">>>>>>),
     \* three price columns, two of them with the same name: the row keeps
     \* the price 50 of the column Price
     CsvFile(TRUE, TRUE,
             <<ColTransactionDate, ColCustomerId, ColProduct, ColQuantity,
               ColPrice, <<"P", "r", "i", "c", "e">>, ColPrice>>,
             <<<<TxtDay2, TxtC1, TxtP1, <<"1">>, <<"1", "0", "0">>, <<"5", "0">>,
                 <<"3", "0", "0">>>>>>),
     CsvFile(TRUE, TRUE, HeaderFull, <<>>),
     \* no price column
     CsvFile(TRUE, TRUE,
             <<ColTransactionId, ColTransactionDate, ColCustomerId, ColProduct,
               ColQuantity>>,
             <<LineShort>>),
     CsvFile(TRUE, TRUE, <<>>, <<>>),
     CsvFile(TRUE, FALSE, HeaderFull, <<LineA>>),
     CsvFile(FALSE, TRUE, HeaderFull, <<LineA>>)}


\* the locals of upload_csv and of the functions it calls, as a request starts
\* (ingest_start, clean_start and created record for the properties where the
\* rows written by this request lie in the tables)
NewRequest(rows) ==
    [file |-> NoData,
     batch |-> rows,
     records_processed |-> 0,
     invalid_during_ingestion |-> 0,
     raw_list |-> <<>>,
     i |-> 1,
     cleaned_count |-> 0,
     duplicates_skipped |-> 0,
     invalid_rows |-> 0,
     processed_transaction_ids |-> {},
     cleaned_data |-> NoData,
     expired |-> FALSE,
     stuck |-> FALSE,
     cleaned_list |-> <<>>,
     features_generated |-> 0,
     daily_summaries |-> 0,
     customer_summaries |-> 0,
     clean_start |-> 0,
     ingest_start |-> 0,
     created |-> <<>>,
     outcomes |-> <<>>]

Init ==
    /\ raw_transactions = <<>>
    /\ cleaned_transactions = <<>>
    /\ daily_sales_summary = <<>>
    /\ customer_summary = <<>>
    /\ feature_engineering = <<>>
    /\ data_quality_metrics = <<>>
    /\ pc = [w \in Workers |-> "idle"]
    /\ req = [w \in Workers |-> NewRequest(<<>>)]
    /\ rows_used = 0
    /\ faults = 0
    \* models.py 43-63 gives cleaned_transactions two indexes that start with
    \* customer_id, the one of the column and idx_cleaned_customer_date; the
    \* query planner takes the one created last, and create_all creates the
    \* indexes in the order of a set
    /\ customer_index \in {"ix_cleaned_transactions_customer_id",
                           "idx_cleaned_customer_date"}

Idle(w) == pc[w] \in {"idle", "done", "failed"}

(***************************************************************************)
(* upload_csv, steps 1-3: parse, ingest_raw_data, select the raw rows      *)
(***************************************************************************)
\* upload.py 47-66: the parsed rows of the file; an empty list raises the
\* HTTPException of line 63, which the handler at 138-140 answers with 500
StartUpload(w, rows) ==
    /\ Idle(w)
    /\ rows_used + Len(rows) <= MaxRows
    /\ rows_used' = rows_used + Len(rows)
    /\ req' = [req EXCEPT ![w] = NewRequest(rows)]
    /\ pc' = [pc EXCEPT ![w] = IF rows = <<>> THEN "failed" ELSE "ingest"]
    /\ UNCHANGED <<customer_index, tables, faults>>

\* upload_csv up to the call of ingest_raw_data (upload.py 47-66), from the
\* uploaded file: a name without the .csv suffix, an empty file, a file
\* parse_csv_file raises on and a file without data lines end the request
\* with an error before anything is stored
UploadFile(w, file) ==
    /\ Idle(w)
    /\ LET Receive(rows) ==
               /\ rows_used + Len(rows) <= MaxRows
               /\ rows_used' = rows_used + Len(rows)
               /\ req' = [req EXCEPT ![w] = [NewRequest(rows) EXCEPT !.file = file]]
               /\ pc' = [pc EXCEPT ![w] = IF rows = <<>> THEN "failed" ELSE "ingest"]
           Rows(parsed) ==
               IF file.filename_csv /\ parsed.ok THEN parsed.transactions ELSE <<>>
       IN  Receive(Rows(parse_csv_file(file)))
    /\ UNCHANGED <<customer_index, tables, faults>>

\* a check of the required fields that forgets the product
IngestValid_NoProduct(transaction) ==
    /\ Truthy(transaction.transaction_date)
    /\ Truthy(transaction.customer_id)

\* ingestion.py 109-110: required fields present
IngestValid(transaction) ==
    /\ Truthy(transaction.transaction_date)
    /\ Truthy(transaction.customer_id)
    /\ Truthy(transaction.product)

\* ingestion.py 116-126
RawTransaction(transaction) ==
    LET \* transaction.get(...) or None
        OrNone(v) == IF Truthy(v) THEN v ELSE None
    IN  [transaction_id |-> OrNone(transaction.transaction_id),
         transaction_date |-> transaction.transaction_date,
         customer_id |-> transaction.customer_id,
         product |-> transaction.product,
         quantity |-> OrNone(transaction.quantity),
         price |-> OrNone(transaction.price)]

RECURSIVE IngestedRows(_)
IngestedRows(transactions) ==
    IF transactions = <<>> THEN <<>>
    ELSE IF IngestValid(Head(transactions))
         THEN <<RawTransaction(Head(transactions))>> \o IngestedRows(Tail(transactions))
         ELSE IngestedRows(Tail(transactions))

\* ingest_raw_data: one RawTransaction per row with its required fields, one
\* commit; the parsed rows are not read again
Ingest(w) ==
    /\ pc[w] = "ingest"
    /\ LET new == IngestedRows(req[w].batch)
       IN  /\ raw_transactions' = raw_transactions \o new
           /\ req' = [req EXCEPT ![w].records_processed = Len(new),
                                 ![w].ingest_start = Len(raw_transactions),
                                 ![w].invalid_during_ingestion =
                                     Len(req[w].batch) - Len(new),
                                 ![w].batch = <<>>]
    /\ pc' = [pc EXCEPT ![w] = "select_raw"]
    /\ UNCHANGED <<customer_index, cleaned_transactions, daily_sales_summary, customer_summary,
                   feature_engineering, data_quality_metrics, rows_used, faults>>

\* query(T).order_by(T.id.desc()).limit(n).all(), reversed: the ids of the
\* last n rows of the table, ascending
LastIds(table, n) ==
    LET k == IF n < Len(table) THEN n ELSE Len(table)
    IN  [j \in 1..k |-> Len(table) - k + j]

\* upload.py 73-82: the raw rows handed to the Cleaner, and the Cleaner's
\* initial locals (cleaning.py 205-211); an empty list returns at once
SelectRaw(w) ==
    /\ pc[w] = "select_raw"
    /\ LET ids == LastIds(raw_transactions, req[w].records_processed)
       IN  /\ req' = [req EXCEPT ![w].raw_list = ids,
                                 ![w].clean_start = Len(cleaned_transactions)]
           /\ pc' = [pc EXCEPT ![w] = IF ids = <<>> THEN "select_cleaned" ELSE "clean"]
    /\ UNCHANGED <<customer_index, tables, rows_used, faults>>

(***************************************************************************)
(* clean_and_store_transactions (cleaning.py 192-321), one raw row at a    *)
(* time: CleanCheck is the row up to the duplicate check, CleanCommit is   *)
(* db.add and db.commit.                                                   *)
(*                                                                         *)
(* The session (database.py: autoflush off, expire_on_commit on) matters   *)
(* in three ways.  After a commit or rollback every loaded instance is     *)
(* expired, so the first attribute read of a raw row issues a SELECT       *)
(* (req.expired).  A store failure in a query leaves the session usable.   *)
(* A failure of the INSERT inside db.commit rolls the transaction back and *)
(* expires the instances, a failure of the COMMIT itself leaves the        *)
(* transaction prepared; in both cases the session emits no SQL until      *)
(* db.rollback is called (req.stuck).                                      *)
(***************************************************************************)
\* mutant: a lookup by transaction_id finds nothing
ExistsTransactionId_Never(table, tid) == FALSE

\* cleaning.py 229-231: a canonical record with this transaction_id
ExistsTransactionId(table, tid) ==
    \E k \in 1..Len(table) : table[k].transaction_id = tid

\* cleaning.py 168-189
is_duplicate(table, cleaned_data) ==
    \E k \in 1..Len(table) :
        /\ table[k].transaction_date = cleaned_data.transaction_date
        /\ table[k].customer_id = cleaned_data.customer_id
        /\ table[k].product = cleaned_data.product
        /\ table[k].quantity = Real(cleaned_data.quantity)
        /\ table[k].price = Real(cleaned_data.price)

\* cleaning.py 220-242: how a valid row is classified
DedupDecision(table, processed, cleaned_data) ==
    IF Truthy(cleaned_data.transaction_id)
    THEN IF cleaned_data.transaction_id \in processed THEN "dup_batch"
         ELSE IF ExistsTransactionId(table, cleaned_data.transaction_id) THEN "dup_db"
         ELSE "insert"
    ELSE IF is_duplicate(table, cleaned_data) THEN "dup_composite"
    ELSE "insert"

\* the duplicate check of this row queries the store
NeedsQuery(processed, cleaned_data) ==
    /\ cleaned_data.ok
    /\ ~(Truthy(cleaned_data.transaction_id)
         /\ cleaned_data.transaction_id \in processed)

\* cleaning.py 238: the id joins the in-batch set before the insert
MarkProcessed(processed, tid) ==
    IF Truthy(tid) THEN processed \cup {tid} ELSE processed

\* the loop moves to the next raw row
NextRow(r, outcome) ==
    [r EXCEPT !.i = @ + 1,
              !.outcomes = Append(@, outcome),
              !.cleaned_data = NoData]

\* cleaning.py 278 and 298
CountInvalid(r, outcome) ==
    [NextRow(r, outcome) EXCEPT !.invalid_rows = @ + 1]

\* mutant: a duplicate is skipped without being counted
CountDuplicate_Uncounted(r, outcome) == NextRow(r, outcome)

\* cleaning.py 224, 233, 240 and 268
CountDuplicate(r, outcome) ==
    [NextRow(r, outcome) EXCEPT !.duplicates_skipped = @ + 1]

\* cleaning.py 245-257
CleanedTransaction(cleaned_data, raw_id) ==
    [transaction_id |-> cleaned_data.transaction_id,
     transaction_date |-> cleaned_data.transaction_date,
     customer_id |-> cleaned_data.customer_id,
     product |-> cleaned_data.product,
     quantity |-> Real(cleaned_data.quantity),
     price |-> Real(cleaned_data.price),
     total_amount |-> Real(cleaned_data.total_amount),
     raw_transaction_id |-> raw_id]

\* the INSERT raises IntegrityError: models.py 45, unique=True on
\* cleaned_transactions.transaction_id, or models.py 50-52, nullable=False on
\* quantity, price and total_amount (the SQLite driver binds nan as NULL)
IntegrityViolation(table, row) ==
    \/ /\ row.transaction_id # None
       /\ ExistsTransactionId(table, row.transaction_id)
    \/ NaN \in {row.quantity, row.price, row.total_amount}

CurRaw(w) == raw_transactions[req[w].raw_list[req[w].i]]

\* mutant: an invalid row ends the loop (break instead of continue)
AfterRow_BreakOnInvalid(w) ==
    IF pc[w] = "clean" /\ ~clean_transaction(CurRaw(w)).ok THEN "select_cleaned"
    ELSE IF req[w].i + 1 > Len(req[w].raw_list) THEN "select_cleaned" ELSE "clean"

\* mutant: the return of the Cleaner is followed by quality tracking at once
AfterRow_ToQuality(w) ==
    IF req[w].i + 1 > Len(req[w].raw_list) THEN "quality" ELSE "clean"

\* where the request goes once row i is dealt with: the next row, or the
\* return of the Cleaner (cleaning.py 316) into upload.py 84
AfterRow(w) ==
    IF req[w].i + 1 > Len(req[w].raw_list) THEN "select_cleaned" ELSE "clean"

\* the row is cleaned and checked with no store failure
CleanCheckOk(w) ==
    /\ pc[w] = "clean"
    /\ LET r == req[w]
           \* d: how the valid row is classified
           Decide(cleaned_data, d) ==
               IF d = "insert"
               THEN /\ req' = [req EXCEPT
                          ![w].cleaned_data = cleaned_data,
                          ![w].processed_transaction_ids =
                              MarkProcessed(@, cleaned_data.transaction_id)]
                    /\ pc' = [pc EXCEPT ![w] = "commit"]
               ELSE /\ req' = [req EXCEPT ![w] = CountDuplicate(r, d)]
                    /\ pc' = [pc EXCEPT ![w] = AfterRow(w)]
           Check(cleaned_data) ==
               /\ r.stuck => (~r.expired /\ ~NeedsQuery(r.processed_transaction_ids, cleaned_data))
               /\ IF ~cleaned_data.ok
                  THEN /\ req' = [req EXCEPT ![w] = CountInvalid(r, "invalid_value")]
                       /\ pc' = [pc EXCEPT ![w] = AfterRow(w)]
                  ELSE Decide(cleaned_data,
                              DedupDecision(cleaned_transactions,
                                            r.processed_transaction_ids, cleaned_data))
       IN  Check(clean_transaction(CurRaw(w)))
    /\ UNCHANGED <<customer_index, tables, rows_used, faults>>

\* the duplicate query raises (cleaning.py 229 or 179): the row's attributes are
\* loaded, so the handler at 297-307 counts the row invalid and the loop goes on
CleanCheckQueryFails(w) ==
    /\ pc[w] = "clean"
    /\ LET r == req[w]
       IN  /\ NeedsQuery(r.processed_transaction_ids, clean_transaction(CurRaw(w)))
           /\ \/ r.stuck /\ ~r.expired /\ faults' = faults
              \/ ~r.stuck /\ faults < MaxFaults /\ faults' = faults + 1
           /\ req' = [req EXCEPT ![w] = CountInvalid(r, "invalid_error")]
    /\ pc' = [pc EXCEPT ![w] = AfterRow(w)]
    /\ UNCHANGED <<customer_index, tables, rows_used>>

\* the SELECT that reloads the expired raw row raises at cleaning.py 92 and
\* succeeds when the handler reads raw_transaction.id at 300
CleanCheckRefreshFails(w) ==
    /\ pc[w] = "clean"
    /\ req[w].expired /\ ~req[w].stuck
    /\ faults < MaxFaults
    /\ faults' = faults + 1
    /\ req' = [req EXCEPT ![w] = CountInvalid(req[w], "invalid_error")]
    /\ pc' = [pc EXCEPT ![w] = AfterRow(w)]
    /\ UNCHANGED <<customer_index, tables, rows_used>>

\* the reload raises at 92 and again in the handler at 300: the exception
\* leaves the loop, 318-321 roll back and re-raise, upload_csv answers 500
CleanCheckAbort(w) ==
    /\ pc[w] = "clean"
    /\ req[w].expired
    /\ \/ req[w].stuck /\ faults' = faults
       \/ ~req[w].stuck /\ faults + 2 <= MaxFaults /\ faults' = faults + 2
    /\ req' = [req EXCEPT ![w].invalid_rows = @ + 1,
                          ![w].outcomes = Append(@, "fatal"),
                          ![w].stuck = FALSE]
    /\ pc' = [pc EXCEPT ![w] = "failed"]
    /\ UNCHANGED <<customer_index, tables, rows_used>>

\* mutant: the IntegrityError is handled like any other error
OnIntegrityError_AsInvalid(r) ==
    [CountInvalid(r, "dup_integrity") EXCEPT !.expired = TRUE]

\* cleaning.py 265-270: db.rollback (which expires the session's instances),
\* the row is counted as a duplicate, continue
OnIntegrityError(r) ==
    [CountDuplicate(r, "dup_integrity") EXCEPT !.expired = TRUE]

\* db.add and db.commit with no store failure (cleaning.py 259-270): the row
\* is inserted, or a constraint raises IntegrityError and the row is rolled
\* back and counted as a duplicate
CommitRow(w) ==
    /\ pc[w] = "commit"
    /\ LET r == req[w]
           row == CleanedTransaction(r.cleaned_data, r.raw_list[r.i])
       IN  IF IntegrityViolation(cleaned_transactions, row)
           THEN /\ req' = [req EXCEPT ![w] = OnIntegrityError(r)]
                /\ UNCHANGED cleaned_transactions
           ELSE /\ req' = [req EXCEPT ![w] =
                              [NextRow(r, "cleaned") EXCEPT
                                  !.cleaned_count = @ + 1,
                                  !.expired = TRUE,
                                  !.created = Append(@, Len(cleaned_transactions) + 1)]]
                /\ cleaned_transactions' = Append(cleaned_transactions, row)
    /\ pc' = [pc EXCEPT ![w] = AfterRow(w)]
    /\ UNCHANGED <<customer_index, raw_transactions, daily_sales_summary, customer_summary,
                   feature_engineering, data_quality_metrics, rows_used, faults>>

\* the INSERT of db.commit raises another error than IntegrityError: the
\* session rolls back and expires its instances, the handler at 297 counts the
\* row and raises on raw_transaction.id, 318-321 re-raise
CommitFlushFails(w) ==
    /\ pc[w] = "commit"
    /\ faults < MaxFaults
    /\ faults' = faults + 1
    /\ req' = [req EXCEPT ![w].invalid_rows = @ + 1,
                          ![w].outcomes = Append(@, "fatal"),
                          ![w].expired = TRUE]
    /\ pc' = [pc EXCEPT ![w] = "failed"]
    /\ UNCHANGED <<customer_index, tables, rows_used>>

\* the COMMIT of db.commit raises: nothing is stored, the handler at 297
\* counts the row invalid, the loop goes on with a session that emits no SQL.
\* db.commit sends the INSERT first, and a row the store refuses raises
\* IntegrityError there: no COMMIT is sent for it
CommitCommitFails(w) ==
    /\ pc[w] = "commit"
    /\ ~IntegrityViolation(cleaned_transactions,
                           CleanedTransaction(req[w].cleaned_data,
                                              req[w].raw_list[req[w].i]))
    /\ faults < MaxFaults
    /\ faults' = faults + 1
    /\ req' = [req EXCEPT ![w] = [CountInvalid(req[w], "invalid_error") EXCEPT !.stuck = TRUE]]
    /\ pc' = [pc EXCEPT ![w] = AfterRow(w)]
    /\ UNCHANGED <<customer_index, tables, rows_used>>

(***************************************************************************)
(* Feature generation (feature_engineering.py)                             *)
(***************************************************************************)
MinOf(S) == CHOOSE x \in S : \A y \in S : x <= y
MaxOf(S) == CHOOSE x \in S : \A y \in S : x >= y

\* a set of integers as an ascending sequence
RECURSIVE Ascending(_)
Ascending(S) ==
    IF S = {} THEN <<>> ELSE <<MinOf(S)>> \o Ascending(S \ {MinOf(S)})

\* sorted(cleaned_transactions, key=(transaction_date, id)) on a list of ids:
\* stable insertion sort
RECURSIVE SortByDateId(_, _)
SortByDateId(table, ids) ==
    IF ids = <<>> THEN <<>>
    ELSE LET rest == SortByDateId(table, SubSeq(ids, 1, Len(ids) - 1))
             x == ids[Len(ids)]
             Before(y) == \/ table[y].transaction_date < table[x].transaction_date
                          \/ /\ table[y].transaction_date = table[x].transaction_date
                             /\ y <= x
             n == Cardinality({j \in 1..Len(rest) : Before(rest[j])})
         IN  SubSeq(rest, 1, n) \o <<x>> \o SubSeq(rest, n + 1, Len(rest))

\* func.sum(column) or 0.0 over the rows with the ids of order, which the
\* store scans in this order: sum() of SQLite 3.40 adds value after value to
\* a double that starts as 0.0, and a sum that is nan comes back as NULL.
\* The ids of a date are scanned in ascending order (the index on
\* transaction_date); the ids of a customer up to a date are scanned by date
\* and then by id (idx_cleaned_customer_date)
SumOf(table, order, column) ==
    LET RECURSIVE Running(_)
        Running(n) ==
            IF n = 0 THEN Num(0) ELSE Add(Running(n - 1), table[order[n]][column])
        OrZero(sum) == IF sum = NaN \/ IsZero(sum) THEN Num(0) ELSE sum
    IN  OrZero(Running(Len(order)))

\* feature_engineering.py 16-33
calculate_daily_revenue(table, transaction_date) ==
    LET Hit(t) == t.transaction_date = transaction_date
    IN  SumOf(table, Ascending({k \in 1..Len(table) : Hit(table[k])}), "total_amount")

\* mutant: the lifetime value is summed without the date filter
calculate_customer_lifetime_value_AllDates(table, customer_id, current_date) ==
    LET Hit(t) == t.customer_id = customer_id
    IN  SumOf(table,
              SortByDateId(table, Ascending({k \in 1..Len(table) : Hit(table[k])})),
              "total_amount")

\* feature_engineering.py 36-55
calculate_customer_lifetime_value(table, customer_id, current_date) ==
    LET Hit(t) == t.customer_id = customer_id /\ t.transaction_date <= current_date
    IN  SumOf(table,
              SortByDateId(table, Ascending({k \in 1..Len(table) : Hit(table[k])})),
              "total_amount")

\* mutant: the frequency is counted without the date filter
calculate_transaction_frequency_AllDates(table, customer_id, current_date) ==
    LET Hit(t) == t.customer_id = customer_id
    IN  Cardinality({k \in 1..Len(table) : Hit(table[k])})

\* feature_engineering.py 58-77
calculate_transaction_frequency(table, customer_id, current_date) ==
    LET Hit(t) == t.customer_id = customer_id /\ t.transaction_date <= current_date
    IN  Cardinality({k \in 1..Len(table) : Hit(table[k])})

\* feature_engineering.py 80-105
calculate_days_since_first_transaction(table, customer_id, current_date) ==
    LET Hit(t) == t.customer_id = customer_id
        ks == {k \in 1..Len(table) : Hit(table[k])}
        first_transaction == MinOf({table[k].transaction_date : k \in ks})
        \* None as the value of days_since_first_transaction (days are never
        \* negative)
        NoDays == -1
    IN  IF ks = {} THEN NoDays
        ELSE IF first_transaction < current_date THEN current_date - first_transaction
        ELSE IF first_transaction = current_date THEN 0
        ELSE NoDays

\* feature_engineering.py 108-127: avg() of SQLite is the sum divided by the
\* number of rows
calculate_average_transaction_value(table, customer_id, current_date) ==
    LET Hit(t) == t.customer_id = customer_id /\ t.transaction_date <= current_date
        ks == {k \in 1..Len(table) : Hit(table[k])}
    IN  IF ks = {} THEN Num(0)
        ELSE Div(SumOf(table, SortByDateId(table, Ascending(ks)), "total_amount"),
                 Cardinality(ks))

\* mutant: frequency and lifetime value are those of the record alone
FeatureRecord_OwnOnly(table, transaction) ==
    [transaction_id |-> transaction.transaction_id,
     customer_id |-> transaction.customer_id,
     transaction_date |-> transaction.transaction_date,
     total_amount |-> transaction.total_amount,
     quantity |-> transaction.quantity,
     price |-> transaction.price,
     daily_revenue |-> calculate_daily_revenue(table, transaction.transaction_date),
     customer_lifetime_value |-> transaction.total_amount,
     transaction_frequency |-> 1,
     days_since_first_transaction |->
         calculate_days_since_first_transaction(table, transaction.customer_id,
                                                transaction.transaction_date),
     average_transaction_value |->
         calculate_average_transaction_value(table, transaction.customer_id,
                                             transaction.transaction_date)]

\* feature_engineering.py 169-199
FeatureRecord(table, transaction) ==
    [transaction_id |-> transaction.transaction_id,
     customer_id |-> transaction.customer_id,
     transaction_date |-> transaction.transaction_date,
     total_amount |-> transaction.total_amount,
     quantity |-> transaction.quantity,
     price |-> transaction.price,
     daily_revenue |-> calculate_daily_revenue(table, transaction.transaction_date),
     customer_lifetime_value |->
         calculate_customer_lifetime_value(table, transaction.customer_id,
                                           transaction.transaction_date),
     transaction_frequency |->
         calculate_transaction_frequency(table, transaction.customer_id,
                                         transaction.transaction_date),
     days_since_first_transaction |->
         calculate_days_since_first_transaction(table, transaction.customer_id,
                                                transaction.transaction_date),
     average_transaction_value |->
         calculate_average_transaction_value(table, transaction.customer_id,
                                             transaction.transaction_date)]

\* feature_engineering.py 158-202: the feature rows this call adds
RECURSIVE NewFeatures(_, _, _)
NewFeatures(table, features, ids) ==
    IF ids = <<>> THEN <<>>
    ELSE LET transaction == table[Head(ids)]
             rest == NewFeatures(table, features, Tail(ids))
             \* feature_engineering.py 161-166: a feature row with this
             \* transaction_id is already stored (rows added in this call are
             \* not flushed, so not seen)
             FeatureExists ==
                 /\ Truthy(transaction.transaction_id)
                 /\ \E k \in 1..Len(features) :
                        features[k].transaction_id = transaction.transaction_id
         IN  IF FeatureExists THEN rest
             ELSE <<FeatureRecord(table, transaction)>> \o rest

\* mutant: only the first record of the sorted list is given features
store_feature_engineering_FirstOnly(table, features, ids) ==
    IF ids = <<>> THEN <<>>
    ELSE NewFeatures(table, features, <<SortByDateId(table, ids)[1]>>)

\* store_feature_engineering: the rows to add, in sorted order
store_feature_engineering(table, features, ids) ==
    NewFeatures(table, features, SortByDateId(table, ids))

\* upload.py 88-90: the canonical rows handed to the Feature Generator; the
\* query raises when the Cleaner left the session unusable
SelectCleaned(w) ==
    /\ pc[w] = "select_cleaned"
    /\ IF req[w].stuck
       THEN /\ pc' = [pc EXCEPT ![w] = "failed"]
            /\ req' = [req EXCEPT ![w].stuck = FALSE]
       ELSE /\ pc' = [pc EXCEPT ![w] = "features"]
            /\ req' = [req EXCEPT ![w].cleaned_list =
                          LastIds(cleaned_transactions, req[w].cleaned_count)]
    /\ UNCHANGED <<customer_index, tables, rows_used, faults>>

\* mutant: the feature table is rebuilt from the whole canonical store
GenerateFeatures_Rebuild(w) ==
    /\ pc[w] = "features"
    /\ feature_engineering' =
           NewFeatures(cleaned_transactions, <<>>,
                       SortByDateId(cleaned_transactions,
                                    [k \in 1..Len(cleaned_transactions) |-> k]))
    /\ req' = [req EXCEPT ![w].features_generated = Len(req[w].cleaned_list)]
    /\ pc' = [pc EXCEPT ![w] = "aggregate_daily"]
    /\ UNCHANGED <<customer_index, raw_transactions, cleaned_transactions, daily_sales_summary,
                   customer_summary, data_quality_metrics, rows_used, faults>>

\* upload.py 91
GenerateFeatures(w) ==
    /\ pc[w] = "features"
    /\ LET new == store_feature_engineering(cleaned_transactions, feature_engineering,
                                            req[w].cleaned_list)
       IN  /\ feature_engineering' = feature_engineering \o new
           /\ req' = [req EXCEPT ![w].features_generated = Len(new)]
    /\ pc' = [pc EXCEPT ![w] = "aggregate_daily"]
    /\ UNCHANGED <<customer_index, raw_transactions, cleaned_transactions, daily_sales_summary,
                   customer_summary, data_quality_metrics, rows_used, faults>>

(***************************************************************************)
(* Aggregation (transformation.py): full recompute, upsert by key.  The    *)
(* GROUP BY rows are taken in ascending key order.                         *)
(***************************************************************************)

\* transformation.py 44-51: one GROUP BY row per transaction_date
DayData(cleaned, d) ==
    LET Hit(t) == t.transaction_date = d
        ks == {k \in 1..Len(cleaned) : Hit(cleaned[k])}
    IN  [date |-> d,
         total_revenue |-> SumOf(cleaned, Ascending(ks), "total_amount"),
         total_orders |-> Cardinality(ks),
         total_quantity |-> SumOf(cleaned, Ascending(ks), "quantity")]

\* mutant: the recomputed values are added to the existing summary
UpdateDailySummary_Accumulate(existing_summary, day_data) ==
    [existing_summary EXCEPT !.total_revenue = Add(@, day_data.total_revenue),
                             !.total_orders = @ + day_data.total_orders,
                             !.total_quantity = Add(@, day_data.total_quantity)]

\* transformation.py 61-65: the existing summary takes the recomputed values
UpdateDailySummary(existing_summary, day_data) ==
    [existing_summary EXCEPT !.total_revenue = day_data.total_revenue,
                             !.total_orders = day_data.total_orders,
                             !.total_quantity = day_data.total_quantity]

\* mutant: a summary row is inserted without looking for an existing one
UpsertDaily_AlwaysInsert(table, day_data) == Append(table, day_data)

\* transformation.py 57-74
UpsertDaily(table, day_data) ==
    LET Hit(s) == s.date = day_data.date
    IN  IF {k \in 1..Len(table) : Hit(table[k])} # {}
        THEN [table EXCEPT ![MinOf({k \in 1..Len(table) : Hit(table[k])})] = UpdateDailySummary(@, day_data)]
        ELSE Append(table, day_data)

RECURSIVE UpsertAllDaily(_, _, _)
UpsertAllDaily(table, cleaned, dates) ==
    IF dates = <<>> THEN table
    ELSE UpsertAllDaily(UpsertDaily(table, DayData(cleaned, Head(dates))),
                        cleaned, Tail(dates))

\* aggregate_daily_sales: the table after the commit and the count returned
aggregate_daily_sales(cleaned, table) ==
    LET dates == Ascending({cleaned[k].transaction_date : k \in 1..Len(cleaned)})
    IN  [table |-> UpsertAllDaily(table, cleaned, dates),
         summaries_updated |-> Len(dates)]

\* a set of texts as an ascending sequence
RECURSIVE AscendingTexts(_)
AscendingTexts(S) ==
    IF S = {} THEN <<>>
    ELSE LET m == CHOOSE x \in S : \A y \in S \ {x} : TextLess(x, y)
         IN  <<m>> \o AscendingTexts(S \ {m})

\* the ids ks of one customer in the order in which the GROUP BY of
\* transformation.py 102-109 scans them: it walks customer_index
CustomerScan(cleaned, ks) ==
    IF customer_index = "idx_cleaned_customer_date"
    THEN SortByDateId(cleaned, Ascending(ks))
    ELSE Ascending(ks)

\* mutant: the average order value is not divided by the number of orders
CustData_NoDivision(cleaned, c) ==
    LET Hit(t) == t.customer_id = c
        ks == {k \in 1..Len(cleaned) : Hit(cleaned[k])}
        total_revenue == SumOf(cleaned, CustomerScan(cleaned, ks), "total_amount")
        total_orders == Cardinality(ks)
    IN  [customer_id |-> c,
         total_revenue |-> total_revenue,
         total_orders |-> total_orders,
         average_order_value |-> total_revenue,
         last_transaction_date |-> MaxOf({cleaned[k].transaction_date : k \in ks})]

\* transformation.py 101-114: one GROUP BY row per customer_id, with
\* avg_order_value = (total_revenue or 0.0) / (total_orders or 1)
CustData(cleaned, c) ==
    LET Hit(t) == t.customer_id = c
        ks == {k \in 1..Len(cleaned) : Hit(cleaned[k])}
        total_revenue == SumOf(cleaned, CustomerScan(cleaned, ks), "total_amount")
        total_orders == Cardinality(ks)
    IN  [customer_id |-> c,
         total_revenue |-> total_revenue,
         total_orders |-> total_orders,
         average_order_value |->
             Div(total_revenue, IF total_orders = 0 THEN 1 ELSE total_orders),
         last_transaction_date |-> MaxOf({cleaned[k].transaction_date : k \in ks})]

\* transformation.py 117-136
UpsertCustomer(table, cust_data) ==
    LET Hit(s) == s.customer_id = cust_data.customer_id
        \* 121-126: the existing summary takes the recomputed values
        Updated(existing_summary) ==
            [existing_summary EXCEPT
                !.total_revenue = cust_data.total_revenue,
                !.total_orders = cust_data.total_orders,
                !.average_order_value = cust_data.average_order_value,
                !.last_transaction_date = cust_data.last_transaction_date]
    IN  IF {k \in 1..Len(table) : Hit(table[k])} # {}
        THEN [table EXCEPT ![MinOf({k \in 1..Len(table) : Hit(table[k])})] = Updated(@)]
        ELSE Append(table, cust_data)

RECURSIVE UpsertAllCustomers(_, _, _)
UpsertAllCustomers(table, cleaned, customers) ==
    IF customers = <<>> THEN table
    ELSE UpsertAllCustomers(UpsertCustomer(table, CustData(cleaned, Head(customers))),
                            cleaned, Tail(customers))

\* aggregate_customer_summary: the table after the commit and the count returned
aggregate_customer_summary(cleaned, table) ==
    LET \* the GROUP BY walks an index that starts with customer_id: the
        \* customers come in ascending order
        customers == AscendingTexts({cleaned[k].customer_id : k \in 1..Len(cleaned)})
    IN  [table |-> UpsertAllCustomers(table, cleaned, customers),
         summaries_updated |-> Len(customers)]

\* transformation.py 162
AggregateDaily(w) ==
    /\ pc[w] = "aggregate_daily"
    /\ LET res == aggregate_daily_sales(cleaned_transactions, daily_sales_summary)
       IN  /\ daily_sales_summary' = res.table
           /\ req' = [req EXCEPT ![w].daily_summaries = res.summaries_updated]
    /\ pc' = [pc EXCEPT ![w] = "aggregate_customer"]
    /\ UNCHANGED <<customer_index, raw_transactions, cleaned_transactions, customer_summary,
                   feature_engineering, data_quality_metrics, rows_used, faults>>

\* transformation.py 163
AggregateCustomer(w) ==
    /\ pc[w] = "aggregate_customer"
    /\ LET res == aggregate_customer_summary(cleaned_transactions, customer_summary)
       IN  /\ customer_summary' = res.table
           /\ req' = [req EXCEPT ![w].customer_summaries = res.summaries_updated]
    /\ pc' = [pc EXCEPT ![w] = "quality"]
    /\ UNCHANGED <<customer_index, raw_transactions, cleaned_transactions, daily_sales_summary,
                   feature_engineering, data_quality_metrics, rows_used, faults>>

(***************************************************************************)
(* Quality tracking (data_quality.py)                                      *)
(***************************************************************************)
\* data_quality.py 14-39: round((cleaned_records / total_records) * 100.0, 2)
calculate_data_quality_percentage(total_records, invalid_records, duplicate_records) ==
    IF total_records = 0 THEN Num(0)
    ELSE LET cleaned_records == total_records - invalid_records - duplicate_records
         IN  round(Mul(Div(Num(cleaned_records), total_records), Num(100)), 2)

\* data_quality.py 62-75; dropped_records is not set and keeps its default 0
QualityMetric(total_records, invalid_records, duplicate_records, cleaned_records) ==
    [total_records_ingested |-> total_records,
     invalid_records |-> invalid_records,
     duplicate_records |-> duplicate_records,
     cleaned_records |-> cleaned_records,
     dropped_records |-> 0,
     data_quality_percentage |->
         Real(calculate_data_quality_percentage(total_records, invalid_records,
                                                duplicate_records))]

\* upload.py 84: total_invalid
TotalInvalid(r) == r.invalid_during_ingestion + r.invalid_rows

\* upload.py 100-115
StoreQuality(w) ==
    /\ pc[w] = "quality"
    /\ data_quality_metrics' =
           Append(data_quality_metrics,
                  QualityMetric(req[w].records_processed, TotalInvalid(req[w]),
                                req[w].duplicates_skipped, req[w].cleaned_count))
    /\ pc' = [pc EXCEPT ![w] = "done"]
    /\ UNCHANGED <<customer_index, raw_transactions, cleaned_transactions, daily_sales_summary,
                   customer_summary, feature_engineering, req, rows_used, faults>>

(***************************************************************************)
(* Store failures outside the Cleaner's loop.  ingest_raw_data,            *)
(* store_feature_engineering, aggregate_daily_sales,                       *)
(* aggregate_customer_summary and store_quality_metrics each end with one  *)
(* db.commit inside try / except: db.rollback(); raise, and the queries of *)
(* upload_csv are not guarded at all: the exception reaches upload.py      *)
(* 138-140, which answers 500.  Nothing of the failing stage is stored,    *)
(* what the earlier stages committed stays.                                *)
(***************************************************************************)
StageFails(w) ==
    /\ pc[w] \in {"ingest", "select_raw", "select_cleaned", "features",
                  "aggregate_daily", "aggregate_customer", "quality"}
    /\ ~req[w].stuck
    /\ faults < MaxFaults
    /\ faults' = faults + 1
    /\ pc' = [pc EXCEPT ![w] = "failed"]
    /\ UNCHANGED <<customer_index, tables, req, rows_used>>

\* feature_engineering.py 204-206: a query for the k-th record of the sorted
\* list raises, the record is skipped and the loop goes on
GenerateFeaturesSkips(w, k) ==
    /\ pc[w] = "features"
    /\ k <= Len(req[w].cleaned_list)
    /\ faults < MaxFaults
    /\ faults' = faults + 1
    /\ LET sorted == SortByDateId(cleaned_transactions, req[w].cleaned_list)
           new == NewFeatures(cleaned_transactions, feature_engineering,
                              SubSeq(sorted, 1, k - 1)
                                  \o SubSeq(sorted, k + 1, Len(sorted)))
       IN  /\ feature_engineering' = feature_engineering \o new
           /\ req' = [req EXCEPT ![w].features_generated = Len(new)]
    /\ pc' = [pc EXCEPT ![w] = "aggregate_daily"]
    /\ UNCHANGED <<customer_index, raw_transactions, cleaned_transactions, daily_sales_summary,
                   customer_summary, data_quality_metrics, rows_used>>

(***************************************************************************)
(* Specifications                                                          *)
(***************************************************************************)
Step(w) ==
    \/ Ingest(w)
    \/ SelectRaw(w)
    \/ CleanCheckOk(w)
    \/ CleanCheckQueryFails(w)
    \/ CleanCheckRefreshFails(w)
    \/ CleanCheckAbort(w)
    \/ CommitRow(w)
    \/ CommitFlushFails(w)
    \/ CommitCommitFails(w)
    \/ SelectCleaned(w)
    \/ GenerateFeatures(w)
    \/ AggregateDaily(w)
    \/ AggregateCustomer(w)
    \/ StoreQuality(w)

\* uploads run one at a time: a single worker serves every request
Next ==
    \/ \E rows \in SeqsUpTo(RowTemplates, MaxRows) : StartUpload("w1", rows)
    \/ Step("w1")

Spec == Init /\ [][Next]_vars

\* the steps of a request when no store failure is injected
StepNoFault(w) ==
    \/ Ingest(w)
    \/ SelectRaw(w)
    \/ CleanCheckOk(w)
    \/ CommitRow(w)
    \/ SelectCleaned(w)
    \/ GenerateFeatures(w)
    \/ AggregateDaily(w)
    \/ AggregateCustomer(w)
    \/ StoreQuality(w)

\* mutant: upload_csv is declared with def, so every request runs in a thread
\* of its own
EventLoopFree_ThreadPool(w) == TRUE

\* main.py 55 starts one process with one event loop, and upload_csv is a
\* coroutine whose only await comes before its first store operation: from
\* there a request runs to its answer before any other request goes on.  A
\* request is off the event loop when it is not yet received, waits in
\* `await file.read()` (upload.py 53) with its rows still to be parsed, or is
\* answered
EventLoopFree(w) ==
    \A v \in Workers \ {w} : pc[v] \in {"idle", "ingest", "done", "failed"}

\* two requests in flight at once, one upload each; the requests are
\* interchangeable, so w1 is the first to be received
StartConc(w, rows) ==
    /\ pc[w] = "idle"
    /\ rows # <<>>
    /\ w = "w2" => pc["w1"] # "idle"
    /\ rows_used + Len(rows) <= MaxConcRows
    /\ StartUpload(w, rows)

\* a step of a request the event loop is running
RunOnLoop(w) == EventLoopFree(w) /\ StepNoFault(w)

NextConc ==
    \E w \in Workers :
        \/ \E rows \in SeqsUpTo(ConcTemplates, MaxConcRows) : StartConc(w, rows)
        \/ RunOnLoop(w)

SpecConc == Init /\ [][NextConc]_vars

\* longest list handed to store_feature_engineering in a direct call
MaxCallLen == 2

\* number of feature rows up to which direct calls are made
MaxFeatureRows == 4

\* mutant: only the head of the list is processed
CallStoreFeatures_HeadOnly(w, ids) ==
    /\ pc[w] = "select_cleaned"
    /\ \A j \in 1..Len(ids) : ids[j] <= Len(cleaned_transactions)
    /\ LET new == store_feature_engineering(cleaned_transactions, feature_engineering,
                                            IF ids = <<>> THEN <<>> ELSE <<ids[1]>>)
       IN  /\ Len(feature_engineering) + Len(new) <= MaxFeatureRows
           /\ feature_engineering' = feature_engineering \o new
           /\ req' = [req EXCEPT ![w].cleaned_list = ids,
                                 ![w].features_generated = Len(new)]
    /\ UNCHANGED <<customer_index, raw_transactions, cleaned_transactions, daily_sales_summary,
                   customer_summary, data_quality_metrics, pc, rows_used, faults>>

\* store_feature_engineering called directly (feature_engineering.py 130-215)
\* with any list of canonical records, once the Cleaner has returned
CallStoreFeatures(w, ids) ==
    /\ pc[w] = "select_cleaned"
    /\ \A j \in 1..Len(ids) : ids[j] <= Len(cleaned_transactions)
    /\ LET new == store_feature_engineering(cleaned_transactions, feature_engineering, ids)
       IN  /\ Len(feature_engineering) + Len(new) <= MaxFeatureRows
           /\ feature_engineering' = feature_engineering \o new
           /\ req' = [req EXCEPT ![w].cleaned_list = ids,
                                 ![w].features_generated = Len(new)]
    /\ UNCHANGED <<customer_index, raw_transactions, cleaned_transactions, daily_sales_summary,
                   customer_summary, data_quality_metrics, pc, rows_used, faults>>

\* one upload of valid rows fills the canonical store, then the Feature
\* Generator is called any number of times on any lists of canonical records
NextFeatures ==
    \/ \E rows \in SeqsUpTo(ConcTemplates, MaxConcRows) : StartConc("w1", rows)
    \/ Ingest("w1")
    \/ SelectRaw("w1")
    \/ CleanCheckOk("w1")
    \/ CommitRow("w1")
    \/ \E ids \in SeqsUpTo(1..MaxConcRows, MaxCallLen) : CallStoreFeatures("w1", ids)

SpecFeatures == Init /\ [][NextFeatures]_vars

\* uploads of files, one at a time, without store failures
NextParse ==
    \/ \E file \in FileTemplates : UploadFile("w1", file)
    \/ StepNoFault("w1")

SpecParse == Init /\ [][NextParse]_vars

\* an upload of rows that exercise the Cleaner's conversions
StartClean(w, rows) ==
    /\ rows # <<>>
    /\ rows_used + Len(rows) <= MaxCleanRows
    /\ StartUpload(w, rows)

\* uploads of such rows, one at a time, without store failures
NextClean ==
    \/ \E rows \in SeqsUpTo(CleanTemplates, MaxCleanRows) : StartClean("w1", rows)
    \/ StepNoFault("w1")

SpecClean == Init /\ [][NextClean]_vars

\* an upload of rows among which the store refuses some
StartRefused(w, rows) ==
    /\ rows # <<>>
    /\ rows_used + Len(rows) <= MaxRefusedRows
    /\ StartUpload(w, rows)

\* uploads of such rows, one at a time, without store failures
NextRefused ==
    \/ \E rows \in SeqsUpTo(RefusedTemplates, MaxRefusedRows) : StartRefused("w1", rows)
    \/ StepNoFault("w1")

SpecRefused == Init /\ [][NextRefused]_vars

\* the store is a database (database.py 12: a file, or a server) that other
\* processes write to as well.  Another writer commits a record with the
\* transaction_id of the row the Cleaner of w has looked up (cleaning.py
\* 229-231) and is about to insert (263); row is what that writer cleaned
OtherWriter(w, row) ==
    /\ pc[w] = "commit"
    /\ req[w].cleaned_data.transaction_id # None
    /\ clean_transaction(row).transaction_id = req[w].cleaned_data.transaction_id
    /\ ~ExistsTransactionId(cleaned_transactions, req[w].cleaned_data.transaction_id)
    /\ cleaned_transactions' =
           Append(cleaned_transactions, CleanedTransaction(clean_transaction(row), None))
    /\ UNCHANGED <<customer_index, raw_transactions, daily_sales_summary, customer_summary,
                   feature_engineering, data_quality_metrics, pc, req, rows_used, faults>>

\* uploads one at a time, without store failures, beside another writer of
\* the store
NextWriter ==
    \/ \E rows \in SeqsUpTo(RefusedTemplates, MaxRefusedRows) : StartRefused("w1", rows)
    \/ StepNoFault("w1")
    \/ \E row \in {RowA, RowB} : OtherWriter("w1", row)

SpecWriter == Init /\ [][NextWriter]_vars

\* uploads one at a time, of the rows of RowTemplates but RowB, where a stage
\* outside the Cleaner's loop can fail
NextStages ==
    \/ \E rows \in SeqsUpTo(RowTemplates \ {RowB}, MaxRows) : StartUpload("w1", rows)
    \/ StepNoFault("w1")
    \/ StageFails("w1")
    \/ \E k \in 1..MaxRows : GenerateFeaturesSkips("w1", k)

SpecStages == Init /\ [][NextStages]_vars

(***************************************************************************)
(* Properties                                                              *)
(***************************************************************************)
\* the Cleaner has returned normally to upload_csv
AfterCleaner ==
    {"select_cleaned", "features", "aggregate_daily", "aggregate_customer",
     "quality", "done"}

\* outcomes of a row that met a store failure
FailureOutcomes == {"invalid_error", "fatal"}

DuplicateOutcomes == {"dup_batch", "dup_db", "dup_composite", "dup_integrity"}

\* C1: whenever clean_and_store_transactions has returned normally,
\* cleaned_count + duplicates_skipped + invalid_rows is the number of raw rows
\* it was given: every row incremented exactly one counter.
C1_CountersPartition ==
    \A w \in Workers :
        pc[w] \in AfterCleaner =>
            req[w].cleaned_count + req[w].duplicates_skipped + req[w].invalid_rows
                = Len(req[w].raw_list)

\* a batch of three rows returned with one row cleaned, one duplicate and one
\* row counted invalid after a store failure
C1_Witness ==
    /\ pc["w1"] = "select_cleaned"
    /\ req["w1"].cleaned_count = 1
    /\ req["w1"].duplicates_skipped = 1
    /\ req["w1"].invalid_rows = 1
    /\ \E j \in 1..Len(req["w1"].outcomes) : req["w1"].outcomes[j] = "invalid_error"

\* C2: no two canonical records carry the same non-null transaction_id, after
\* uploads run one after the other, in either order of two requests that are
\* in flight at once.
C2_UniqueTransactionId ==
    \A j, k \in 1..Len(cleaned_transactions) :
        (j < k /\ cleaned_transactions[j].transaction_id # None) =>
            cleaned_transactions[j].transaction_id # cleaned_transactions[k].transaction_id

\* both uploads carried a valid row with id T1 and are done: one stored it,
\* the other counted a duplicate
C2_Witness ==
    /\ pc["w1"] = "done" /\ pc["w2"] = "done"
    /\ req["w1"].cleaned_count + req["w2"].cleaned_count = 1
    /\ req["w1"].duplicates_skipped + req["w2"].duplicates_skipped = 1
    /\ Len(cleaned_transactions) = 1
    /\ cleaned_transactions[1].transaction_id = TxtT1
\* the cleaned form of the j-th raw row handed to the Cleaner of w
RowData(w, j) == clean_transaction(raw_transactions[req[w].raw_list[j]])

\* a canonical record was created from this raw row
StoredFrom(raw_id) ==
    \E m \in 1..Len(cleaned_transactions) :
        cleaned_transactions[m].raw_transaction_id = raw_id

\* the canonical record with this transaction_id carries the fields of this row
StoredWithFieldsOf(cleaned_data, raw_id) ==
    \E m \in 1..Len(cleaned_transactions) :
        /\ cleaned_transactions[m].transaction_id = cleaned_data.transaction_id
        /\ cleaned_transactions[m].transaction_date = cleaned_data.transaction_date
        /\ cleaned_transactions[m].customer_id = cleaned_data.customer_id
        /\ cleaned_transactions[m].product = cleaned_data.product
        /\ cleaned_transactions[m].quantity = cleaned_data.quantity
        /\ cleaned_transactions[m].price = cleaned_data.price
        /\ cleaned_transactions[m].total_amount = cleaned_data.total_amount
        /\ cleaned_transactions[m].raw_transaction_id = raw_id

\* rows j < k of the batch of w are valid, carry the same transaction_id and
\* j is the first valid row of the batch with that id
SameIdPair(w, j, k) ==
    /\ j < k
    /\ RowData(w, j).ok /\ RowData(w, k).ok
    /\ Truthy(RowData(w, j).transaction_id)
    /\ RowData(w, j).transaction_id = RowData(w, k).transaction_id
    /\ \A h \in 1..(j - 1) :
           RowData(w, h).ok => RowData(w, h).transaction_id # RowData(w, j).transaction_id

\* C3: of two valid rows of a batch with the same transaction_id the first is
\* inserted, the later one is counted as a duplicate and is not inserted, and
\* the stored record has the fields of the first.
C3_FirstInserted ==
    \A w \in Workers : \A j, k \in 1..Len(req[w].outcomes) :
        SameIdPair(w, j, k) =>
            /\ req[w].outcomes[j] = "cleaned"
            /\ StoredWithFieldsOf(RowData(w, j), req[w].raw_list[j])
            /\ req[w].outcomes[k] \in DuplicateOutcomes
            /\ ~StoredFrom(req[w].raw_list[k])

\* the five fields of is_duplicate agree
SameComposite(t, cleaned_data) ==
    /\ t.transaction_date = cleaned_data.transaction_date
    /\ t.customer_id = cleaned_data.customer_id
    /\ t.product = cleaned_data.product
    /\ t.quantity = cleaned_data.quantity
    /\ t.price = cleaned_data.price

\* the step finishes the duplicate check of a valid row without transaction_id
\* of w with no store failure: the row is counted a duplicate, and does not go
\* on to the insert, exactly if the store holds a record with its composite
C4_Decision(w) ==
    (/\ pc[w] = "clean"
     /\ clean_transaction(CurRaw(w)).ok
     /\ ~Truthy(clean_transaction(CurRaw(w)).transaction_id)
     /\ \/ pc'[w] = "commit"
        \/ /\ req'[w].i = req[w].i + 1
           /\ req'[w].outcomes[Len(req'[w].outcomes)] \notin FailureOutcomes)
    => ((/\ req'[w].duplicates_skipped = req[w].duplicates_skipped + 1
         /\ pc'[w] # "commit"
         /\ cleaned_transactions' = cleaned_transactions)
        <=> \E m \in 1..Len(cleaned_transactions) :
                SameComposite(cleaned_transactions[m], clean_transaction(CurRaw(w))))

\* the step finishes the insert of a row without transaction_id with no store
\* failure: the record is appended and counted
C4_Insert(w) ==
    (/\ pc[w] = "commit"
     /\ ~Truthy(req[w].cleaned_data.transaction_id)
     /\ pc'[w] # "commit"
     /\ faults' = faults)
    => /\ Len(cleaned_transactions') = Len(cleaned_transactions) + 1
       /\ SameComposite(cleaned_transactions'[Len(cleaned_transactions')],
                        req[w].cleaned_data)
       /\ req'[w].cleaned_count = req[w].cleaned_count + 1

\* no two canonical records without transaction_id share a composite
C4_NoSharedComposite ==
    \A j, k \in 1..Len(cleaned_transactions) :
        (j < k /\ cleaned_transactions[j].transaction_id = None
               /\ cleaned_transactions[k].transaction_id = None)
        => ~SameComposite(cleaned_transactions[j], cleaned_transactions[k])

\* of two identical valid rows without transaction_id, neither of which met a
\* store failure, the second is a duplicate
C4_SecondIsDuplicate ==
    \A w \in Workers : \A j, k \in 1..Len(req[w].outcomes) :
        (/\ j < k
         /\ RowData(w, j).ok /\ RowData(w, k).ok
         /\ ~Truthy(RowData(w, j).transaction_id)
         /\ ~Truthy(RowData(w, k).transaction_id)
         /\ SameComposite(RowData(w, j), RowData(w, k))
         /\ req[w].outcomes[j] \notin FailureOutcomes
         /\ req[w].outcomes[k] \notin FailureOutcomes)
        => req[w].outcomes[k] = "dup_composite"

\* C4: a valid row without transaction_id that is processed with no store
\* failure is counted a duplicate and not inserted if and only if the
\* canonical store holds, when the row is checked, a record (with or without
\* id) with the same date, customer, product, quantity and price; so the
\* second of two identical such rows is a duplicate and no two canonical
\* records without id share a composite.  Stated for uploads that run one
\* after the other.
C4_CompositeDuplicate ==
    /\ [][\A w \in Workers : C4_Decision(w) /\ C4_Insert(w)]_vars
    /\ [](C4_NoSharedComposite /\ C4_SecondIsDuplicate)

\* the raw row passes clean_transaction
ValidRaw(raw_id) == clean_transaction(raw_transactions[raw_id]).ok

\* the canonical store after the Cleaner has gone through these raw rows with
\* no store failure (cleaning.py 214-307 as a function of the store, the
\* in-batch id set and the rows): a row the pre-checks let through is marked
\* as processed and then inserted, unless the INSERT raises IntegrityError
RECURSIVE CleanAll(_, _, _)
CleanAll(table, processed, raw_ids) ==
    IF raw_ids = <<>> THEN table
    ELSE LET cleaned_data == clean_transaction(raw_transactions[Head(raw_ids)])
             row == CleanedTransaction(cleaned_data, Head(raw_ids))
             marked == MarkProcessed(processed, cleaned_data.transaction_id)
         IN  IF ~cleaned_data.ok THEN CleanAll(table, processed, Tail(raw_ids))
             ELSE IF DedupDecision(table, processed, cleaned_data) # "insert"
             THEN CleanAll(table, processed, Tail(raw_ids))
             ELSE IF IntegrityViolation(table, row)
             THEN CleanAll(table, marked, Tail(raw_ids))
             ELSE CleanAll(Append(table, row), marked, Tail(raw_ids))

\* no row of the batch of w met a store failure
NoStoreFailure(w) ==
    \A j \in 1..Len(req[w].outcomes) : req[w].outcomes[j] \notin FailureOutcomes

\* C5: an invalid row does not abort the batch.  When the Cleaner has
\* returned from a batch without store failure, every row has been processed
\* and the canonical store is the one the same batch without its invalid rows
\* produces from the store the Cleaner started with; and at every moment each
\* row that was accepted has its canonical record stored.
C5_InvalidRowsAreSkipped ==
    \A w \in Workers :
        /\ (pc[w] \in AfterCleaner /\ NoStoreFailure(w)) =>
               /\ Len(req[w].outcomes) = Len(req[w].raw_list)
               /\ cleaned_transactions =
                      CleanAll(SubSeq(cleaned_transactions, 1, req[w].clean_start), {},
                               SelectSeq(req[w].raw_list, ValidRaw))
        /\ \A j \in 1..Len(req[w].outcomes) :
               req[w].outcomes[j] = "cleaned" => StoredFrom(req[w].raw_list[j])

\* a batch with an invalid row between two rows that were both stored
C5_Witness ==
    /\ pc["w1"] = "select_cleaned"
    /\ req["w1"].outcomes = <<"cleaned", "invalid_value", "cleaned">>
    /\ Len(cleaned_transactions) = req["w1"].clean_start + 2

\* the step is the insert by w of a row whose transaction_id another writer
\* has stored since the Cleaner looked it up: the unique index of models.py 45
\* refuses the row (a nan amount would have it refused as NULL before that)
C6_Step(w) ==
    (/\ pc[w] = "commit"
     /\ pc'[w] # "commit"
     /\ faults' = faults
     /\ req[w].cleaned_data.transaction_id # None
     /\ ExistsTransactionId(cleaned_transactions, req[w].cleaned_data.transaction_id)
     /\ NaN \notin {req[w].cleaned_data.quantity, req[w].cleaned_data.price,
                    req[w].cleaned_data.total_amount})
    => /\ cleaned_transactions' = cleaned_transactions
       /\ req'[w].duplicates_skipped = req[w].duplicates_skipped + 1
       /\ req'[w].cleaned_count = req[w].cleaned_count
       /\ req'[w].invalid_rows = req[w].invalid_rows
       /\ req'[w].i = req[w].i + 1
       /\ pc'[w] = IF req'[w].i <= Len(req[w].raw_list) THEN "clean" ELSE "select_cleaned"

\* C6: an insert that the unique index on transaction_id refuses is rolled
\* back, the row is counted as exactly one duplicate and as nothing else, the
\* canonical store is left as it was and the Cleaner goes on with the next
\* row.
C6_IntegrityErrorIsDuplicate == [][\A w \in Workers : C6_Step(w)]_vars

\* the first row of an upload, with id T1 and amounts the store accepts, was
\* refused because another writer had stored T1 after the lookup; the Cleaner
\* went on, stored the next row, and the record with T1 is the other writer's
C6_Witness ==
    \E w \in Workers :
        /\ pc[w] = "done"
        /\ req[w].outcomes = <<"dup_integrity", "cleaned">>
        /\ req[w].duplicates_skipped = 1
        /\ req[w].cleaned_count = 1
        /\ RowData(w, 1).transaction_id = TxtT1
        /\ NaN \notin {RowData(w, 1).quantity, RowData(w, 1).price,
                       RowData(w, 1).total_amount}
        /\ \E m \in 1..Len(cleaned_transactions) :
               /\ cleaned_transactions[m].transaction_id = TxtT1
               /\ cleaned_transactions[m].raw_transaction_id = None
        /\ Len(cleaned_transactions) = 2

\* the step injects a store failure into the Cleaner of w
StoreFailureStep(w) ==
    /\ pc[w] \in {"clean", "commit"}
    /\ faults' > faults
    /\ req'[w] # req[w]

\* C7: a store failure other than a uniqueness violation, in a duplicate
\* query or in a commit, is fatal for the batch: the Cleaner stops and raises,
\* no later row is processed, and the rows committed before remain stored.
C7_StoreFailureIsFatal ==
    [][\A w \in Workers :
          StoreFailureStep(w) =>
              /\ pc'[w] = "failed"
              /\ cleaned_transactions' = cleaned_transactions]_vars

\* C8: an unexpected error on one row is counted as exactly one invalid row,
\* the batch goes on as if the row had been absent (its id is not left in the
\* in-batch set) and the request is not aborted.
C8_ErrorIsOneInvalidRow ==
    [][\A w \in Workers :
          StoreFailureStep(w) =>
              /\ pc'[w] # "failed"
              /\ req'[w].invalid_rows = req[w].invalid_rows + 1
              /\ req'[w].cleaned_count = req[w].cleaned_count
              /\ req'[w].duplicates_skipped = req[w].duplicates_skipped
              /\ req'[w].i = req[w].i + 1
              /\ pc[w] = "commit" =>
                     ~(/\ Truthy(req[w].cleaned_data.transaction_id)
                       /\ req[w].cleaned_data.transaction_id
                              \in req'[w].processed_transaction_ids)
              /\ cleaned_transactions' = cleaned_transactions]_vars

\* x <= y
AtMost(x, y) ==
    /\ NaN \notin {x, y}
    /\ x # y => IsNegative(Add(x, [y EXCEPT !.neg = ~@]))

\* C9: every stored quality metric has a percentage between 0 and 100, and 0
\* when nothing was ingested; stated for the runs in which no store failure
\* was injected.
C9_PercentageInRange ==
    faults = 0 =>
        \A k \in 1..Len(data_quality_metrics) :
            /\ AtMost(Num(0), data_quality_metrics[k].data_quality_percentage)
            /\ AtMost(data_quality_metrics[k].data_quality_percentage, Num(100))
            /\ data_quality_metrics[k].total_records_ingested = 0 =>
                   data_quality_metrics[k].data_quality_percentage = Num(0)

\* C10: once an upload has run both aggregations, running them again on the
\* unchanged canonical store leaves both summary tables as they are and
\* reports the same touched counts.
C10_AggregationIdempotent ==
    \A w \in Workers :
        pc[w] \in {"quality", "done"} =>
            LET daily == aggregate_daily_sales(cleaned_transactions, daily_sales_summary)
                customer == aggregate_customer_summary(cleaned_transactions, customer_summary)
            IN  /\ daily.table = daily_sales_summary
                /\ daily.summaries_updated = req[w].daily_summaries
                /\ customer.table = customer_summary
                /\ customer.summaries_updated = req[w].customer_summaries

\* a second upload that added no canonical record has aggregated again over
\* two days and found the summaries of the first upload
C10_Witness ==
    /\ pc["w1"] = "quality"
    /\ Len(data_quality_metrics) = 1
    /\ req["w1"].cleaned_count = 0
    /\ req["w1"].clean_start = Len(cleaned_transactions)
    /\ Len(daily_sales_summary) = 2
    /\ Len(customer_summary) = 1
    /\ req["w1"].daily_summaries = 2
\* C11: when an upload has completed both aggregations there is exactly one
\* daily summary per date of the canonical store and one customer summary per
\* customer of it, none for any other key, and each carries the full
\* recompute: per date the sum of total_amount, the count and the sum of
\* quantity; per customer the sum, the count, the latest date and
\* average_order_value = revenue / max(orders, 1).
C11_SummariesAreFullRecompute ==
    \A w \in Workers :
        pc[w] \in {"quality", "done"} =>
            LET n == Len(cleaned_transactions)
                dates == {cleaned_transactions[k].transaction_date : k \in 1..n}
                customers == {cleaned_transactions[k].customer_id : k \in 1..n}
                OfDate(d) ==
                    Ascending({k \in 1..n : cleaned_transactions[k].transaction_date = d})
                OfCustomer(c) ==
                    CustomerScan(cleaned_transactions,
                                 {k \in 1..n : cleaned_transactions[k].customer_id = c})
            IN  /\ \A d \in dates :
                       Cardinality({j \in 1..Len(daily_sales_summary) :
                                        daily_sales_summary[j].date = d}) = 1
                /\ \A j \in 1..Len(daily_sales_summary) :
                       LET s == daily_sales_summary[j]
                       IN  /\ s.date \in dates
                           /\ s.total_revenue =
                                  SumOf(cleaned_transactions, OfDate(s.date), "total_amount")
                           /\ s.total_orders = Len(OfDate(s.date))
                           /\ s.total_quantity =
                                  SumOf(cleaned_transactions, OfDate(s.date), "quantity")
                /\ \A c \in customers :
                       Cardinality({j \in 1..Len(customer_summary) :
                                        customer_summary[j].customer_id = c}) = 1
                /\ \A j \in 1..Len(customer_summary) :
                       LET s == customer_summary[j]
                           ks == OfCustomer(s.customer_id)
                           revenue == SumOf(cleaned_transactions, ks, "total_amount")
                           orders == Len(ks)
                       IN  /\ s.customer_id \in customers
                           /\ s.total_revenue = revenue
                           /\ s.total_orders = orders
                           /\ s.last_transaction_date =
                                  MaxOf({cleaned_transactions[ks[k]].transaction_date :
                                             k \in 1..Len(ks)})
                           /\ s.average_order_value =
                                  Div(revenue, IF orders > 1 THEN orders ELSE 1)

\* a second upload added a record to a date and a customer that already had a
\* summary, and both summaries were updated to two orders
C11_Witness ==
    /\ pc["w1"] = "quality"
    /\ Len(data_quality_metrics) = 1
    /\ req["w1"].cleaned_count = 1
    /\ Len(daily_sales_summary) = 1
    /\ daily_sales_summary[1].total_orders = 2
    /\ Len(customer_summary) = 1
    /\ customer_summary[1].total_orders = 2

\* C12: store_feature_engineering called again with the list of canonical
\* records of the call before, on an unchanged canonical store, creates no
\* feature row and leaves the feature table as it is, for records with
\* transaction_id and for records without.
C12_FeaturesIdempotent ==
    [][\A w \in Workers :
          (/\ pc[w] = "select_cleaned" /\ pc'[w] = "select_cleaned"
           /\ req[w].cleaned_list # <<>>
           /\ req'[w].cleaned_list = req[w].cleaned_list
           /\ cleaned_transactions' = cleaned_transactions)
          => /\ feature_engineering' = feature_engineering
             /\ req'[w].features_generated = 0]_vars

\* C13: after any calls of store_feature_engineering on any lists the feature
\* table holds at most one row per non-null transaction_id.
C13_OneFeaturePerTransactionId ==
    \A j, k \in 1..Len(feature_engineering) :
        (j < k /\ feature_engineering[j].transaction_id # None)
        => feature_engineering[j].transaction_id # feature_engineering[k].transaction_id

\* the feature row f carries the values recomputed from the canonical store
FeatureMatchesStore(f, table) ==
    LET OnDate == {k \in 1..Len(table) : table[k].transaction_date = f.transaction_date}
        UpTo == {k \in 1..Len(table) :
                     /\ table[k].customer_id = f.customer_id
                     /\ table[k].transaction_date <= f.transaction_date}
        total == SumOf(table, SortByDateId(table, Ascending(UpTo)), "total_amount")
    IN  /\ f.daily_revenue = SumOf(table, Ascending(OnDate), "total_amount")
        /\ f.customer_lifetime_value = total
        /\ f.transaction_frequency = Cardinality(UpTo)
        /\ UpTo # {}
        /\ f.average_transaction_value = Div(total, Cardinality(UpTo))

\* C14: every feature row is created with daily_revenue = the sum of
\* total_amount over the canonical records of its date, and lifetime value,
\* frequency and average = sum, count and mean of total_amount over the
\* canonical records of its customer dated on or before its date, taken on
\* the canonical store as it is when the row is created; later records of the
\* customer do not contribute.
C14_FeaturesFromStore ==
    [][\A j \in (Len(feature_engineering) + 1)..Len(feature_engineering') :
           FeatureMatchesStore(feature_engineering'[j], cleaned_transactions)]_vars

\* an upload stored two records of one customer on two days and created their
\* features: the earlier one does not count the later one
C14_Witness ==
    /\ pc["w1"] = "aggregate_daily"
    /\ Len(cleaned_transactions) = 2
    /\ Len(feature_engineering) = 2
    /\ req["w1"].features_generated = 2
    /\ feature_engineering[1].transaction_date < feature_engineering[2].transaction_date
    /\ feature_engineering[1].customer_id = feature_engineering[2].customer_id
    /\ feature_engineering[1].customer_lifetime_value = feature_engineering[1].total_amount
    /\ feature_engineering[2].transaction_frequency = 2

\* the feature rows created by the feature generation w has just run
NewFeatureRows(w) ==
    (Len(feature_engineering) - req[w].features_generated + 1)..Len(feature_engineering)

\* the upload of w has created, for canonical record k, a feature row with
\* the values of a customer's first record
HasFirstRecordFeatures(w, k) ==
    \E j \in NewFeatureRows(w) :
        LET f == feature_engineering[j]
            t == cleaned_transactions[k]
        IN  /\ f.transaction_id = t.transaction_id
            /\ f.customer_id = t.customer_id
            /\ f.transaction_date = t.transaction_date
            /\ f.total_amount = t.total_amount
            /\ f.transaction_frequency = 1
            /\ f.days_since_first_transaction = 0
            /\ f.customer_lifetime_value = t.total_amount
            /\ f.average_transaction_value = t.total_amount

\* canonical record k is the first one stored for its customer, and the
\* upload of w inserted it
FirstEverOf(w, k) ==
    /\ k > req[w].clean_start
    /\ \A h \in 1..(k - 1) :
           cleaned_transactions[h].customer_id # cleaned_transactions[k].customer_id

\* C15 as stated: the feature row of a customer's first-ever canonical
\* record, created by the upload that inserted it, has frequency 1,
\* days_since_first 0 and lifetime value and average equal to its total,
\* whatever else the batch holds for that customer.
C15_FirstRecordFeatures ==
    \A w \in Workers :
        pc[w] = "aggregate_daily" =>
            \A k \in 1..Len(cleaned_transactions) :
                FirstEverOf(w, k) => HasFirstRecordFeatures(w, k)

\* C15, amended: the same, provided every other canonical record of the
\* customer in the store when the features are generated is dated after it.
C15_FirstRecordFeaturesIfEarliest ==
    \A w \in Workers :
        pc[w] = "aggregate_daily" =>
            \A k \in 1..Len(cleaned_transactions) :
                (/\ FirstEverOf(w, k)
                 /\ \A h \in 1..Len(cleaned_transactions) :
                        (h # k /\ cleaned_transactions[h].customer_id
                                      = cleaned_transactions[k].customer_id)
                        => cleaned_transactions[h].transaction_date
                               > cleaned_transactions[k].transaction_date)
                => HasFirstRecordFeatures(w, k)

\* the batch stored a customer's first record and a later-dated record of the
\* same customer, and the features of the first count only itself
C15_Witness ==
    /\ pc["w1"] = "aggregate_daily"
    /\ req["w1"].clean_start = 0
    /\ Len(cleaned_transactions) = 2
    /\ cleaned_transactions[1].customer_id = cleaned_transactions[2].customer_id
    /\ cleaned_transactions[1].transaction_date < cleaned_transactions[2].transaction_date
    /\ req["w1"].features_generated = 2
    /\ HasFirstRecordFeatures("w1", 1)

\* the upload of w is the first one to get through ingestion, its batch was
\* (T1, 2024-01-01, C1, P1, 2, 100), the same row again, (no id, 2024-01-02,
\* C1, P1, 1, 50), and no store failure hit it
ExampleBatchUploaded(w) ==
    /\ raw_transactions = IngestedRows(<<RowA, RowA, RowC>>)
    /\ req[w].records_processed = 3
    /\ req[w].invalid_during_ingestion = 0
    /\ req[w].clean_start = 0
    /\ NoStoreFailure(w)

\* C16: on an empty store the example batch gives 2 cleaned, 1 duplicate and
\* 0 invalid rows, a daily summary for 2024-01-01 with revenue 200 and a
\* customer summary for C1 with revenue 250, 2 orders and average 125.
C16_ExampleBatch ==
    \A w \in Workers :
        (pc[w] \in {"quality", "done"} /\ ExampleBatchUploaded(w)) =>
            /\ req[w].cleaned_count = 2
            /\ req[w].duplicates_skipped = 1
            /\ TotalInvalid(req[w]) = 0
            /\ \E j \in 1..Len(daily_sales_summary) :
                   /\ daily_sales_summary[j].date = Ordinal(2024, 1, 1)
                   /\ daily_sales_summary[j].total_revenue = Num(200)
            /\ \E j \in 1..Len(customer_summary) :
                   /\ customer_summary[j].customer_id = TxtC1
                   /\ customer_summary[j].total_revenue = Num(250)
                   /\ customer_summary[j].total_orders = 2
                   /\ customer_summary[j].average_order_value = Num(125)

\* the example batch has gone through the whole pipeline
C16_Witness ==
    /\ pc["w1"] = "done"
    /\ ExampleBatchUploaded("w1")
    /\ Len(data_quality_metrics) = 1
    /\ data_quality_metrics[1].cleaned_records = 2
    /\ Len(cleaned_transactions) = 2

\* the header condition of the claim: the payload is decodable, there is a
\* header, and its trimmed, lower-cased cells contain the five required names
HeaderAccepted(file) ==
    /\ file.decodable
    /\ file.header # <<>>
    /\ {ColTransactionDate, ColCustomerId, ColProduct, ColQuantity, ColPrice}
           \subseteq {lower(strip(file.header[p])) : p \in 1..Len(file.header)}

\* the step that receives a file for worker w
ReceivesFile(w) == Idle(w) /\ req'[w] # req[w]

\* C17: parsing an uploaded file fails if and only if its header, trimmed and
\* lower-cased, lacks one of transaction_date, customer_id, product, quantity
\* and price (or there is no header, or the payload is not decodable); and a
\* failed parse ends the upload before ingestion, with nothing created or
\* changed in the store.
C17_ParseFailsIffHeaderRejected ==
    /\ [](\A w \in Workers :
            req[w].file # NoData =>
                (parse_csv_file(req[w].file).ok <=> HeaderAccepted(req[w].file)))
    /\ [][\A w \in Workers :
            (ReceivesFile(w) /\ ~parse_csv_file(req'[w].file).ok) =>
                /\ pc'[w] = "failed"
                /\ tables' = tables]_vars

\* the positions of the parsed rows that hold a date, a customer id and a product
WithRequiredFields(batch) ==
    {p \in 1..Len(batch) : /\ batch[p].transaction_date # <<>>
                           /\ batch[p].customer_id # <<>>
                           /\ batch[p].product # <<>>}

\* the raw record r holds the fields of the parsed row t, an absent quantity
\* or price as null
RawRecordOf(r, t) ==
    /\ r.transaction_date = t.transaction_date
    /\ r.customer_id = t.customer_id
    /\ r.product = t.product
    /\ r.quantity = (IF t.quantity = <<>> THEN None ELSE t.quantity)
    /\ r.price = (IF t.price = <<>> THEN None ELSE t.price)

\* C18: ingest_raw_data persists exactly one raw record per parsed row whose
\* date, customer id and product are all non-empty, in the order of the rows,
\* and none for the other rows; an absent quantity or price is kept as null;
\* it returns (ingested, invalid) where ingested is the number of raw records
\* created and ingested + invalid is the number of parsed rows.
C18_IngestOnePerCompleteRow ==
    [][\A w \in Workers :
        (pc[w] = "ingest" /\ pc'[w] = "select_raw") =>
            LET batch == req[w].batch
                valid == WithRequiredFields(batch)
                old == Len(raw_transactions)
                created == Len(raw_transactions') - old
            IN  /\ SubSeq(raw_transactions', 1, old) = raw_transactions
                /\ created = Cardinality(valid)
                /\ \A p \in valid :
                       RawRecordOf(raw_transactions'[old + Cardinality({q \in valid : q <= p})],
                                   batch[p])
                /\ req'[w].records_processed = created
                /\ req'[w].records_processed + req'[w].invalid_during_ingestion
                       = Len(batch)]_vars

\* an ingestion has stored a row without quantity and price and has refused
\* another row of the same file
C18_Witness ==
    /\ pc["w1"] = "select_raw"
    /\ req["w1"].records_processed = 1
    /\ req["w1"].invalid_during_ingestion = 1
    /\ raw_transactions # <<>>
    /\ raw_transactions[Len(raw_transactions)].quantity = None
    /\ raw_transactions[Len(raw_transactions)].price = None

\* the raw row a canonical record was created from
RawOf(record) == raw_transactions[record.raw_transaction_id]

\* the raw row has a date, a customer id, a product, a quantity and a price
\* that can all be read
Readable(raw) ==
    /\ parse_date(raw.transaction_date).ok
    /\ raw.customer_id # <<>>
    /\ raw.product # <<>>
    /\ parse_float(raw.quantity).ok
    /\ parse_float(raw.price).ok

\* x >= 0
AtLeastZero(x) == x # NaN /\ ~IsNegative(x)

\* C19: every canonical record has quantity >= 0, price >= 0 and total =
\* quantity x price; a row whose parsed quantity or price is negative is not
\* rejected: it is accepted with that value set to 0, and its total is
\* computed from the values so set.
C19_NonNegativeAmounts ==
    /\ \A j \in 1..Len(cleaned_transactions) :
           LET record == cleaned_transactions[j]
               quantity == parse_float(RawOf(record).quantity).val
               price == parse_float(RawOf(record).price).val
           IN  /\ AtLeastZero(record.quantity)
               /\ AtLeastZero(record.price)
               /\ record.total_amount = Mul(record.quantity, record.price)
               /\ record.quantity = Real(IF IsNegative(quantity) THEN Num(0) ELSE quantity)
               /\ record.price = Real(IF IsNegative(price) THEN Num(0) ELSE price)
    /\ \A w \in Workers : \A k \in 1..Len(req[w].outcomes) :
           Readable(raw_transactions[req[w].raw_list[k]])
               => req[w].outcomes[k] \in {"cleaned"} \cup DuplicateOutcomes

\* a row with a negative quantity and a row with a negative price are both
\* in the canonical store
C19_Witness ==
    /\ \E j \in 1..Len(cleaned_transactions) :
           /\ parse_float(RawOf(cleaned_transactions[j]).quantity).val = Div(Num(-3), 2)
           /\ cleaned_transactions[j].quantity = Num(0)
           /\ cleaned_transactions[j].price = Div(Num(5), 2)
           /\ cleaned_transactions[j].total_amount = Num(0)
    /\ \E j \in 1..Len(cleaned_transactions) :
           /\ parse_float(RawOf(cleaned_transactions[j]).price).val = Num(-100)
           /\ cleaned_transactions[j].quantity = Num(2)
           /\ cleaned_transactions[j].price = Num(0)

\* the texts that stand for a missing date
MissingDateTexts ==
    {<<"i", "n", "v", "a", "l", "i", "d", "_", "d", "a", "t", "e">>,
     <<"n", "u", "l", "l">>, <<"n", "o", "n", "e">>, <<>>}

\* the date the claim gives to a text of three fields around slashes or
\* dashes: year first when the first field has four digits; otherwise month
\* first when both leading fields are at most 12 and day first when the first
\* one exceeds 12
ReadsAs(t, date) ==
    /\ \A sep \in {"/", "-"} :
           LET g == SplitOn(t, sep)
           IN  (/\ Len(g) = 3
                /\ Len(g[1]) \in {1, 2} /\ AllDigits(g[1])
                /\ Len(g[2]) \in {1, 2} /\ AllDigits(g[2])
                /\ Len(g[3]) = 4 /\ AllDigits(g[3])) =>
                   /\ (NatOf(g[1]) <= 12 /\ NatOf(g[2]) <= 12)
                          => date = Ordinal(NatOf(g[3]), NatOf(g[1]), NatOf(g[2]))
                   /\ NatOf(g[1]) > 12
                          => date = Ordinal(NatOf(g[3]), NatOf(g[2]), NatOf(g[1]))
    /\ LET g == SplitOn(t, "-")
       IN  (/\ Len(g) = 3
            /\ Len(g[1]) = 4 /\ AllDigits(g[1])
            /\ AllDigits(g[2])
            /\ Len(g[3]) >= 2 /\ AllDigits(SubSeq(g[3], 1, 2))) =>
               date = Ordinal(NatOf(g[1]), NatOf(g[2]), NatOf(SubSeq(g[3], 1, 2)))

\* C20: parse_date tries YYYY-MM-DD, MM/DD/YYYY, DD/MM/YYYY, YYYY-MM-DD
\* HH:MM:SS, MM-DD-YYYY and DD-MM-YYYY in that order and returns the date of
\* the first format that matches: a slash or dash date whose two leading
\* fields are both at most 12 is read month-first, one whose first field
\* exceeds 12 is read day-first; the texts invalid_date, null, none and the
\* empty text, in any letter case, make the row invalid.
C20_DateFormatsInOrder ==
    /\ \A j \in 1..Len(cleaned_transactions) :
           LET t == strip(RawOf(cleaned_transactions[j]).transaction_date)
           IN  /\ lower(t) \notin MissingDateTexts
               /\ ReadsAs(t, cleaned_transactions[j].transaction_date)
    /\ \A w \in Workers : \A k \in 1..Len(req[w].outcomes) :
           lower(strip(raw_transactions[req[w].raw_list[k]].transaction_date))
                   \in MissingDateTexts
               => req[w].outcomes[k] = "invalid_value"
    /\ \A k \in 1..Len(raw_transactions) :
           raw_transactions[k].transaction_date # <<>>

\* a month-first and a day-first reading of dates with slashes are both in
\* the canonical store
C20_Witness ==
    /\ \E j \in 1..Len(cleaned_transactions) :
           /\ RawOf(cleaned_transactions[j]).transaction_date = RowSlashMD.transaction_date
           /\ cleaned_transactions[j].transaction_date = Ordinal(2024, 1, 5)
    /\ \E j \in 1..Len(cleaned_transactions) :
           /\ RawOf(cleaned_transactions[j]).transaction_date = RowSlashDM.transaction_date
           /\ cleaned_transactions[j].transaction_date = Ordinal(2024, 5, 13)

\* the order of the stages of one upload: each position of a request with the
\* positions that may follow it
StageOrder ==
    {<<"idle", "ingest">>, <<"done", "ingest">>, <<"failed", "ingest">>,
     <<"ingest", "select_raw">>,
     <<"select_raw", "clean">>, <<"select_raw", "select_cleaned">>,
     <<"clean", "commit">>, <<"clean", "select_cleaned">>,
     <<"commit", "clean">>, <<"commit", "select_cleaned">>,
     <<"select_cleaned", "features">>,
     <<"features", "aggregate_daily">>,
     <<"aggregate_daily", "aggregate_customer">>,
     <<"aggregate_customer", "quality">>,
     <<"quality", "done">>}

\* the earlier stages of the upload of w have all been carried out
EarlierStagesDone(w) ==
    /\ Len(req[w].raw_list) = req[w].records_processed
    /\ Len(req[w].outcomes) = Len(req[w].raw_list)
    /\ Len(req[w].cleaned_list) = req[w].cleaned_count
    /\ req[w].daily_summaries =
           Cardinality({cleaned_transactions[k].transaction_date :
                            k \in 1..Len(cleaned_transactions)})
    /\ req[w].customer_summaries =
           Cardinality({cleaned_transactions[k].customer_id :
                            k \in 1..Len(cleaned_transactions)})

\* C21: within one upload the stages run strictly in sequence (parse, raw
\* write, clean, feature generation and aggregation, quality tracking); the
\* request either completes all of them or fails with an error that aborts
\* the remaining ones; a quality metric is created for the batch exactly
\* once, and only after every earlier stage of that upload has completed.
C21_StagesInSequence ==
    [][/\ \A w \in Workers :
            pc'[w] # pc[w] =>
                \/ <<pc[w], pc'[w]>> \in StageOrder
                \/ pc'[w] = "failed"
       /\ \A w \in Workers :
            (pc[w] = "failed" /\ (pc'[w] # pc[w] \/ req'[w] # req[w])) =>
                /\ tables' = tables
                /\ pc'[w] \in {"ingest", "failed"}
                /\ req'[w] = [NewRequest(req'[w].batch) EXCEPT !.file = req'[w].file]
       /\ IF \E w \in Workers : pc[w] = "quality" /\ pc'[w] = "done"
          THEN /\ Len(data_quality_metrics') = Len(data_quality_metrics) + 1
               /\ \A w \in Workers :
                      (pc[w] = "quality" /\ pc'[w] = "done") => EarlierStagesDone(w)
          ELSE data_quality_metrics' = data_quality_metrics
       /\ SubSeq(data_quality_metrics', 1, Len(data_quality_metrics))
              = data_quality_metrics]_vars

\* an upload completed with its quality metric after an earlier upload had
\* failed in a stage after the Cleaner and left none
C21_Witness ==
    /\ pc["w1"] = "done"
    /\ faults = 1
    /\ Len(data_quality_metrics) = 1
    /\ req["w1"].records_processed = 1
    /\ Len(cleaned_transactions) = 2
    /\ Len(feature_engineering) = 2

\* the ids of the raw records the ingestion of w persisted
OwnRaw(w) ==
    (req[w].ingest_start + 1)..(req[w].ingest_start + req[w].records_processed)

\* the ids of the canonical records with this transaction_id
WithTransactionId(tid) ==
    {k \in 1..Len(cleaned_transactions) : cleaned_transactions[k].transaction_id = tid}

\* w persisted a raw row that is valid and carries this transaction_id
UploadedValidId(w, tid) ==
    \E k \in OwnRaw(w) :
        /\ clean_transaction(raw_transactions[k]).ok
        /\ clean_transaction(raw_transactions[k]).transaction_id = tid

\* the Cleaner of w counted a row with this transaction_id as a duplicate
CountedIdDuplicate(w, tid) ==
    \E j \in 1..Len(req[w].outcomes) :
        /\ clean_transaction(raw_transactions[req[w].raw_list[j]]).ok
        /\ clean_transaction(raw_transactions[req[w].raw_list[j]]).transaction_id = tid
        /\ req[w].outcomes[j] \in DuplicateOutcomes

\* C22: whichever way two uploads that are in flight at once and both contain
\* a valid row with the same external id are run, exactly one canonical
\* record with that id is created; the upload that did not create it counts
\* its row as a duplicate (by its pre-check or by the uniqueness violation
\* caught at commit) and finishes its remaining rows without error.
C22_ConcurrentSameId ==
    (/\ \A w \in Workers : pc[w] \in AfterCleaner \cup {"failed"}
     /\ \A w \in Workers : UploadedValidId(w, TxtT1)) =>
        /\ Cardinality(WithTransactionId(TxtT1)) = 1
        /\ \A w \in Workers :
               /\ pc[w] # "failed"
               /\ Len(req[w].outcomes) = Len(req[w].raw_list)
               /\ (\A k \in WithTransactionId(TxtT1) :
                       \A j \in 1..Len(req[w].created) : req[w].created[j] # k)
                      => CountedIdDuplicate(w, TxtT1)

\* both uploads uploaded the valid T1 row, the request received second was
\* run first and stored it, the other one counted it a duplicate in the store
\* and both are done
C22_Witness ==
    /\ pc["w1"] = "done" /\ pc["w2"] = "done"
    /\ UploadedValidId("w1", TxtT1) /\ UploadedValidId("w2", TxtT1)
    /\ req["w2"].ingest_start = 0
    /\ req["w1"].ingest_start > 0
    /\ WithTransactionId(TxtT1) = {1}
    /\ req["w2"].created = <<1>>
    /\ \E j \in 1..Len(req["w1"].outcomes) : req["w1"].outcomes[j] = "dup_db"

\* the rows of the batch of w that are valid, carry no transaction_id and
\* have the composite key of RowC
IdlessRowC(w) ==
    {j \in 1..Len(req[w].outcomes) :
        /\ RowData(w, j).ok
        /\ RowData(w, j).transaction_id = None
        /\ SameComposite(RowData(w, j), clean_transaction(RowC))}

\* C23: whichever way two uploads that are in flight at once and both contain
\* a valid id-less row with the same composite key (date, customer id,
\* product, quantity, price) are run, at most one canonical record with that
\* composite key is created from those rows; the other upload counts its row
\* as a duplicate.
C23_ConcurrentSameComposite ==
    /\ \A j, k \in 1..Len(cleaned_transactions) :
           (/\ j # k
            /\ cleaned_transactions[j].transaction_id = None
            /\ cleaned_transactions[k].transaction_id = None)
               => ~SameComposite(cleaned_transactions[j], cleaned_transactions[k])
    /\ (\A w \in Workers : pc[w] \in AfterCleaner /\ IdlessRowC(w) # {}) =>
           \E w \in Workers :
               \A j \in IdlessRowC(w) : req[w].outcomes[j] = "dup_composite"

\* both uploads uploaded the id-less row, the request received second was run
\* first and stored it, the other one counted it a duplicate
C23_Witness ==
    /\ pc["w1"] = "done" /\ pc["w2"] = "done"
    /\ req["w2"].ingest_start = 0
    /\ req["w1"].ingest_start > 0
    /\ req["w2"].outcomes = <<"cleaned">>
    /\ req["w1"].outcomes = <<"dup_composite">>
    /\ IdlessRowC("w1") = {1} /\ IdlessRowC("w2") = {1}
    /\ Len(cleaned_transactions) = 1

\* C24: canonical records and feature records are never modified or deleted
\* after creation: every step of a later upload, aggregation run or
\* feature-generation run leaves each stored canonical record and each stored
\* feature record as it was.
C24_RecordsImmutable ==
    [][/\ Len(cleaned_transactions') >= Len(cleaned_transactions)
       /\ SubSeq(cleaned_transactions', 1, Len(cleaned_transactions))
              = cleaned_transactions
       /\ Len(feature_engineering') >= Len(feature_engineering)
       /\ SubSeq(feature_engineering', 1, Len(feature_engineering))
              = feature_engineering]_vars

\* a second upload has completed after a first one, and added a record to the
\* date and the customer of the first one
C24_Witness ==
    /\ pc["w1"] = "done"
    /\ Len(data_quality_metrics) = 2
    /\ Len(cleaned_transactions) = 2
    /\ Len(feature_engineering) = 2
    /\ req["w1"].created = <<2>>
    /\ cleaned_transactions[1].customer_id = cleaned_transactions[2].customer_id
    /\ feature_engineering[1].transaction_frequency = 1

\* C25: every quality metric recorded by an upload satisfies cleaned_records =
\* total_records_ingested - invalid_records - duplicate_records, so that its
\* quality percentage is the share cleaned / ingested; this holds also when
\* parsed rows were rejected during raw ingestion and added to
\* invalid_records.
C25_MetricCountsAddUp ==
    \A j \in 1..Len(data_quality_metrics) :
        LET m == data_quality_metrics[j]
        IN  /\ m.cleaned_records =
                   m.total_records_ingested - m.invalid_records - m.duplicate_records
            /\ m.total_records_ingested > 0 =>
                   m.data_quality_percentage =
                       Real(round(Mul(Div(Num(m.cleaned_records), m.total_records_ingested),
                                      Num(100)), 2))

\* the canonical records of this customer dated at or before this date among
\* the first n records of the store
UpToDate(n, customer_id, date) ==
    {k \in 1..n : /\ cleaned_transactions[k].customer_id = customer_id
                  /\ cleaned_transactions[k].transaction_date <= date}

\* frequency and lifetime value of the feature record f are the count and the
\* sum of total over the customer's records up to its date among the first n
\* records of the store
CountsOver(f, n) ==
    /\ f.transaction_frequency = Cardinality(UpToDate(n, f.customer_id, f.transaction_date))
    /\ f.customer_lifetime_value =
           SumOf(cleaned_transactions,
                 SortByDateId(cleaned_transactions,
                              Ascending(UpToDate(n, f.customer_id, f.transaction_date))),
                 "total_amount")

AllIdle == \A w \in Workers : pc[w] \in {"idle", "done"}

\* C26 as stated: after any sequence of completed uploads every stored
\* feature record's frequency and lifetime_value equal the count and the sum
\* of total over the canonical records of its customer currently in the store
\* with date at or before the feature record's date.
C26_FeaturesFollowStore ==
    AllIdle =>
        \A j \in 1..Len(feature_engineering) :
            CountsOver(feature_engineering[j], Len(cleaned_transactions))

\* C26, amended: every stored feature record's frequency and lifetime_value
\* equal the count and the sum of total over the canonical records of its
\* customer, dated at or before its date, that were in the store when the
\* feature record was created (the store only grows, so these are the first
\* n records for some n); records stored later do not change it.
C26_FeaturesAreSnapshots ==
    \A j \in 1..Len(feature_engineering) :
        \E n \in 1..Len(cleaned_transactions) :
            CountsOver(feature_engineering[j], n)

\* two uploads have completed; the second added, for the customer of the
\* first, a record dated earlier, and the feature record of the first still
\* counts one record
C26_Witness ==
    /\ pc["w1"] = "done"
    /\ Len(data_quality_metrics) = 2
    /\ Len(cleaned_transactions) = 2
    /\ Len(feature_engineering) = 2
    /\ cleaned_transactions[2].customer_id = cleaned_transactions[1].customer_id
    /\ cleaned_transactions[2].transaction_date < cleaned_transactions[1].transaction_date
    /\ feature_engineering[1].transaction_date = cleaned_transactions[1].transaction_date
    /\ feature_engineering[1].transaction_frequency = 1
    /\ feature_engineering[2].transaction_frequency = 1

\* the feature records, among those of the table features, that carry the
\* fields of the canonical record with id k
FeaturesOf(features, k) ==
    {j \in 1..Len(features) :
        /\ features[j].transaction_id = cleaned_transactions[k].transaction_id
        /\ features[j].customer_id = cleaned_transactions[k].customer_id
        /\ features[j].transaction_date = cleaned_transactions[k].transaction_date
        /\ features[j].quantity = cleaned_transactions[k].quantity
        /\ features[j].price = cleaned_transactions[k].price
        /\ features[j].total_amount = cleaned_transactions[k].total_amount}

\* the canonical record k has no feature record and no request that created
\* it has yet to generate its features
Unfeatured(features, positions, requests, k) ==
    /\ FeaturesOf(features, k) = {}
    /\ \A w \in Workers :
           positions[w] \in {"clean", "commit", "select_cleaned", "features"}
               => \A j \in 1..Len(requests[w].created) : requests[w].created[j] # k

\* C27: after every upload that completes without error each canonical
\* record created by that upload has exactly one feature record and
\* features_generated equals records_cleaned; a canonical record left without
\* feature record by an upload whose feature generation failed or skipped it
\* gets none from any later upload, of the same rows or of others.
C27_OneFeaturePerCreatedRecord ==
    [][/\ \A w \in Workers :
            (pc[w] = "features" /\ pc'[w] = "aggregate_daily" /\ faults' = faults) =>
                /\ req'[w].features_generated = req[w].cleaned_count
                /\ \A j \in 1..Len(req[w].created) :
                       Cardinality(FeaturesOf(feature_engineering', req[w].created[j])) = 1
       /\ \A k \in 1..Len(cleaned_transactions) :
            Unfeatured(feature_engineering, pc, req, k)
                => Unfeatured(feature_engineering', pc', req', k)]_vars

\* a canonical record was left without feature record, and a later upload of
\* the same row has completed and counted the row as a duplicate
C27_Witness ==
    /\ pc["w1"] = "done"
    /\ Len(data_quality_metrics) >= 1
    /\ req["w1"].duplicates_skipped = 1
    /\ req["w1"].cleaned_count = 0
    /\ Len(cleaned_transactions) = 1
    /\ feature_engineering = <<>>

\* the orderings of a list of n elements
Orderings(n) ==
    {p \in [1..n -> 1..n] : \A i, j \in 1..n : p[i] = p[j] => i = j}

\* C28: the feature records produced by store_feature_engineering do not
\* depend on the order of its input list: for any permutation of the same
\* canonical records on the same store the same feature values are created.
C28_FeaturesOrderIndependent ==
    [][\A w \in Workers :
          (/\ pc[w] = "select_cleaned" /\ pc'[w] = "select_cleaned"
           /\ req'[w].cleaned_list # <<>>)
          => LET ids == req'[w].cleaned_list
                 added == SubSeq(feature_engineering', Len(feature_engineering) + 1,
                                 Len(feature_engineering'))
             IN  \A p \in Orderings(Len(ids)) :
                     LET other == store_feature_engineering(
                                      cleaned_transactions, feature_engineering,
                                      [j \in 1..Len(ids) |-> ids[p[j]]])
                     IN  /\ Len(other) = Len(added)
                         /\ {other[j] : j \in 1..Len(other)}
                                = {added[j] : j \in 1..Len(added)}]_vars

\* a call on two canonical records listed latest first has created their two
\* feature records
C28_Witness ==
    /\ pc["w1"] = "select_cleaned"
    /\ Len(req["w1"].cleaned_list) = 2
    /\ cleaned_transactions[req["w1"].cleaned_list[1]].transaction_date
           > cleaned_transactions[req["w1"].cleaned_list[2]].transaction_date
    /\ req["w1"].features_generated = 2

\* a canonical record with the dedup key of this cleaned row is in the store:
\* the same transaction_id, or for a row without one the same composite key
DedupKeyStored(cleaned_data) ==
    \E k \in 1..Len(cleaned_transactions) :
        IF cleaned_data.transaction_id # None
        THEN cleaned_transactions[k].transaction_id = cleaned_data.transaction_id
        ELSE SameComposite(cleaned_transactions[k], cleaned_data)

\* C29: whenever the Cleaner counts a row as a duplicate, a canonical record
\* with the same dedup key exists in the store when the batch ends; in
\* particular an external id is not left in the in-batch id set when the
\* insertion of its row failed for a reason other than a uniqueness
\* violation.
C29_DuplicateHasStoredRecord ==
    \A w \in Workers :
        pc[w] \in AfterCleaner \cup {"failed"} =>
            \A j \in 1..Len(req[w].outcomes) :
                req[w].outcomes[j] \in DuplicateOutcomes
                    => DedupKeyStored(RowData(w, j))


\* positions of a request after its raw rows were selected (upload.py 73-75)
AfterSelectRaw == {"clean", "commit"} \cup AfterCleaner

\* positions of a request after its canonical records were selected
\* (upload.py 88-90)
AfterSelectCleaned ==
    {"features", "aggregate_daily", "aggregate_customer", "quality", "done"}

\* C30: whichever way two uploads that are in flight at once are run, the
\* Cleaner of each upload is handed exactly the raw records its own ingestion
\* persisted, in their original order, and its Feature Generator exactly the
\* canonical records its own Cleaner created: selecting the last N rows by id
\* never picks up or misses rows because of the other upload.
C30_OwnRowsSelected ==
    \A w \in Workers :
        /\ pc[w] \in AfterSelectRaw => req[w].raw_list = Ascending(OwnRaw(w))
        /\ pc[w] \in AfterSelectCleaned => req[w].cleaned_list = req[w].created

\* the request received second was run first and is done; the other one has
\* selected its own raw row and its own canonical record, which lie behind
\* those of the first
C30_Witness ==
    /\ pc["w2"] = "done"
    /\ pc["w1"] = "features"
    /\ req["w2"].ingest_start = 0
    /\ req["w2"].created # <<>>
    /\ req["w1"].ingest_start > 0
    /\ req["w1"].raw_list = <<req["w1"].ingest_start + 1>>
    /\ req["w1"].cleaned_list = <<Len(cleaned_transactions)>>
    /\ Len(cleaned_transactions) > 1
====
